---- MODULE Spec2Model ----
(***************************************************************************)
(* State-machine model of the portfolio manager: the regime detector, the  *)
(* scenario engine, the feature and score calculators, the macro snapshot  *)
(* builder, the meso analyzer and the orchestrator cycle.                  *)
(*                                                                         *)
(* Python dicts are functions whose DOMAIN is the set of keys present.     *)
(* Numbers are integers; a value that is not a number (a string, None      *)
(* inside a container) is NonNumeric and a missing float is NaN.           *)
(* yield_curve and the scenario inputs gdp_growth / core_inflation are in  *)
(* tenths; every other quantity is in its own unit.                        *)
(***************************************************************************)
EXTENDS Integers, Sequences, FiniteSets, TLC

VARIABLES
    current_state,   \* RegimeDetector.current_state
    resolved,        \* labels resolved by the successive scored detect calls
    macro_in,        \* macro_data as seen by the last detect / determine call
    cs_used,         \* credit_spread local of the three regime scorers
    sequence,        \* ScenarioEngine.sequence
    current,         \* ScenarioEngine.current
    appends,         \* entries appended to ScenarioEngine.sequence so far
    score_regime,    \* ScoreCalculator.regime
    weights,         \* ScoreCalculator.weights, as numerators over their sum
    market_data,     \* symbol -> OHLCV series the FeatureSets scored last came from
    features_dict,   \* symbol -> FeatureSet: argument of the last calculate_batch
    scores,          \* symbol -> AssetScore: what that call returned
    escaped,         \* an exception left that call
    scored_weights,  \* ScoreCalculator.weights as that call read them
    fred_available,     \* MacroFetcher.is_available()
    yfinance_available, \* YFINANCE_AVAILABLE
    cache,              \* MacroFetcher._cache: key -> frame
    series_info_cache,  \* MacroFetcher._series_info_cache: series id -> info
    snapshot,           \* the snapshot get_macro_snapshot last returned
    snapshot_status,    \* "none", "returned" or "raised": the last call's end
    meso_daily,         \* 'daily' of the last meso analysis
    cycle_result,       \* "none", or how the last run_cycle ended
    called,             \* the helper called last on its own, with its arguments
    returned            \* what that call returned

regimeVars == <<current_state, resolved, macro_in, cs_used>>

scenarioVars == <<sequence, current, appends>>

scoreVars == <<score_regime, weights, market_data, features_dict, scores, escaped,
               scored_weights>>

fetcherVars == <<fred_available, yfinance_available, cache, series_info_cache,
                 snapshot, snapshot_status, meso_daily>>

cycleVars == <<cycle_result>>

callVars == <<called, returned>>

vars == <<regimeVars, scenarioVars, scoreVars, fetcherVars, cycleVars, callVars>>

---------------------------------------------------------------------------
(* Values *)

\* a value for which isinstance(v, (int, float)) is false
NonNumeric == 0 - 1000000

\* a float NaN
NaN == 0 - 1000001

\* the absent value (None)
None == 0 - 1000002

IsNumber(v) == v \notin {NonNumeric, None}

IsEmpty(d) == DOMAIN d = {}

\* dict.get(k, default)
Get(d, k, default) == IF k \in DOMAIN d THEN d[k] ELSE default

\* the empty dict
EmptyDict == <<>>

Min(a, b) == IF a < b THEN a ELSE b

Max(a, b) == IF a > b THEN a ELSE b

---------------------------------------------------------------------------
(* Bounds *)

\* scored detect calls per behaviour
MaxCalls == 3

---------------------------------------------------------------------------
(* analysis/regime.py *)

\* credit_spread as _score_risk_on reads it, with the HY_SPREAD fallback
RiskOnCreditSpread(macro) ==
    LET credit_spread == Get(macro, "credit_spread", None)
        hy == Get(macro, "HY_SPREAD", None)
    IN  IF credit_spread = None
        THEN IF IsNumber(hy)
             THEN (IF hy < 50 THEN hy * 100 ELSE hy)
             ELSE None
        ELSE credit_spread

\* credit_spread as _score_risk_off reads it
RiskOffCreditSpread(macro) ==
    LET credit_spread == Get(macro, "credit_spread", None)
        hy == Get(macro, "HY_SPREAD", None)
    IN  IF credit_spread = None
        THEN IF IsNumber(hy)
             THEN (IF hy < 50 THEN hy * 100 ELSE hy)
             ELSE None
        ELSE credit_spread

\* credit_spread as _score_stress reads it
StressCreditSpread(macro) ==
    LET credit_spread == Get(macro, "credit_spread", None)
        hy == Get(macro, "HY_SPREAD", None)
    IN  IF credit_spread = None
        THEN IF IsNumber(hy)
             THEN (IF hy < 50 THEN hy * 100 ELSE hy)
             ELSE None
        ELSE credit_spread

MacroVix(macro) == Get(macro, "VIX", Get(macro, "vix", 20))

MacroYieldCurve(macro) == Get(macro, "YIELD_CURVE_10Y2Y", Get(macro, "yield_curve", 0))

\* a comparison of a non-number with a number raises TypeError
ScoringRaises(macro) ==
    \/ ~IsNumber(MacroVix(macro))
    \/ ~IsNumber(MacroYieldCurve(macro))

score_risk_on(macro) ==
    LET vix == MacroVix(macro)
        yield_curve == MacroYieldCurve(macro)
        credit_spread == RiskOnCreditSpread(macro)
        s1 == 50 + (IF vix < 15 THEN 20 ELSE IF vix < 20 THEN 10 ELSE 0)
        s2 == s1 + (IF yield_curve > 0 THEN 15 ELSE 0)
        s3 == s2 + (IF IsNumber(credit_spread) /\ credit_spread < 350 THEN 15 ELSE 0)
    IN  Min(100, s3)

score_risk_off(macro) ==
    LET vix == MacroVix(macro)
        yield_curve == MacroYieldCurve(macro)
        credit_spread == RiskOffCreditSpread(macro)
        s1 == 50 + (IF vix > 25 THEN 20 ELSE IF vix > 20 THEN 10 ELSE 0)
        s2 == s1 + (IF yield_curve < 0 THEN 15 ELSE 0)
        s3 == s2 + (IF IsNumber(credit_spread) /\ credit_spread > 500 THEN 15 ELSE 0)
    IN  Min(100, s3)

score_stress_from_fifty(macro) ==
    LET vix == MacroVix(macro)
        credit_spread == StressCreditSpread(macro)
        s1 == 50 + (IF vix > 35 THEN 40 ELSE IF vix > 30 THEN 20 ELSE 0)
        s2 == s1 + (IF IsNumber(credit_spread) /\ credit_spread > 700 THEN 30 ELSE 0)
    IN  Min(100, s2)

score_stress(macro) ==
    LET vix == MacroVix(macro)
        credit_spread == StressCreditSpread(macro)
        s1 == 0 + (IF vix > 35 THEN 40 ELSE IF vix > 30 THEN 20 ELSE 0)
        s2 == s1 + (IF IsNumber(credit_spread) /\ credit_spread > 700 THEN 30 ELSE 0)
    IN  Min(100, s2)

\* max(scores, key=scores.get): the first key, in insertion order, of highest score
BestRegime(macro) ==
    LET on == score_risk_on(macro)
        off == score_risk_off(macro)
        st == score_stress(macro)
    IN  IF on >= off /\ on >= st THEN "RISK_ON"
        ELSE IF off >= st THEN "RISK_OFF"
        ELSE "STRESS"

BestScore(macro) ==
    Max(score_risk_on(macro), Max(score_risk_off(macro), score_stress(macro)))

ResolvedRegimeAtMostSixty(state, macro) ==
    IF BestScore(macro) <= 60
    THEN (IF state.regime # "UNCERTAIN" THEN "TRANSITION" ELSE "UNCERTAIN")
    ELSE BestRegime(macro)

ResolvedRegimeNoTransition(state, macro) ==
    IF BestScore(macro) < 60 THEN "UNCERTAIN" ELSE BestRegime(macro)

\* transition detection: a winner below 60 is not a regime
ResolvedRegime(state, macro) ==
    IF BestScore(macro) < 60
    THEN (IF state.regime # "UNCERTAIN" THEN "TRANSITION" ELSE "UNCERTAIN")
    ELSE BestRegime(macro)

\* mutation: a change of label restarts the count at 0
UpdateStateResetsToZero(state, best_regime, best_score) ==
    IF best_regime = state.regime
    THEN [state EXCEPT !.duration_days = @ + 1]
    ELSE [regime |-> best_regime, confidence |-> best_score,
          previous |-> state.regime, duration_days |-> 0]

\* the state update of detect
UpdateState(state, best_regime, best_score) ==
    IF best_regime = state.regime
    THEN [state EXCEPT !.duration_days = @ + 1]
    ELSE [regime |-> best_regime, confidence |-> best_score,
          previous |-> state.regime, duration_days |-> 1]

RegimeInit ==
    /\ current_state = [regime |-> "UNCERTAIN", confidence |-> 50,
                        previous |-> "None", duration_days |-> 0]
    /\ resolved = <<>>
    /\ macro_in = EmptyDict
    /\ cs_used = [risk_on |-> None, risk_off |-> None, stress |-> None]

\* detect on the macro_data it ends up with (after the fetcher fallback)
DetectOn(macro_data) ==
    /\ macro_in' = macro_data
    /\ IF IsEmpty(macro_data) \/ ScoringRaises(macro_data)
       THEN UNCHANGED <<current_state, resolved, cs_used>>
       ELSE /\ Len(resolved) < MaxCalls
            /\ current_state' = UpdateState(current_state,
                                    ResolvedRegime(current_state, macro_data),
                                    BestScore(macro_data))
            /\ resolved' = Append(resolved, ResolvedRegime(current_state, macro_data))
            /\ cs_used' = [risk_on |-> RiskOnCreditSpread(macro_data),
                           risk_off |-> RiskOffCreditSpread(macro_data),
                           stress |-> StressCreditSpread(macro_data)]

VixValues == {12, 22, 40, NonNumeric}

YieldCurveValues == {0 - 2, 5}

CreditSpreadValues == {300, 550}

HySpreadValues == {3, 49, 50}

\* the macro dicts detect is called with
MacroInputs ==
    {EmptyDict}
    \cup {[VIX |-> v, yield_curve |-> y] : v \in VixValues, y \in YieldCurveValues}
    \cup {[VIX |-> v, yield_curve |-> 0 - 2, credit_spread |-> c] :
            v \in {35, 40}, c \in CreditSpreadValues}
    \cup {[VIX |-> 12, yield_curve |-> 5, HY_SPREAD |-> h] : h \in HySpreadValues}
    \cup {[VIX |-> 40, yield_curve |-> 0 - 2, HY_SPREAD |-> h] :
            h \in {3, 50, NonNumeric}}
    \cup {[vix |-> 12, YIELD_CURVE_10Y2Y |-> 5, credit_spread |-> 300,
           HY_SPREAD |-> 49]}
    \cup {[VIX |-> v, yield_curve |-> 0] : v \in {20, 22}}
    \cup {[VIX |-> v, yield_curve |-> 5, credit_spread |-> 750] : v \in {22, 32, 40}}

Detect(macro_data) ==
    /\ DetectOn(macro_data)
    /\ UNCHANGED <<scenarioVars, scoreVars, fetcherVars, cycleVars, callVars>>


---------------------------------------------------------------------------
(* analysis/scenario.py *)

\* entries ScenarioEngine.sequence keeps
SequenceCap == 10

\* appends to the sequence per behaviour
MaxAppends == 12

ScenarioRaisesOnGrowthOnly(macro) == ~IsNumber(Get(macro, "gdp_growth", 20))

\* a comparison of a non-number with a number raises TypeError
ScenarioRaises(macro) ==
    \/ ~IsNumber(Get(macro, "gdp_growth", 20))
    \/ ~IsNumber(Get(macro, "core_inflation", 30))
    \/ ~IsNumber(Get(macro, "credit_spread", 400))

score_disinflation(macro) ==
    LET inflation_trend == Get(macro, "inflation_trend", "FLAT")
        gdp == Get(macro, "gdp_growth", 20)
        s1 == 50 + (IF inflation_trend = "FALLING" THEN 25 ELSE 0)
        s2 == s1 + (IF gdp > 10 THEN 15 ELSE 0)
    IN  Min(100, s2)

score_reacceleration(macro) ==
    LET gdp == Get(macro, "gdp_growth", 20)
        s1 == 40 + (IF gdp > 25 THEN 30 ELSE IF gdp > 20 THEN 15 ELSE 0)
    IN  Min(100, s1)

score_goldilocks(macro) ==
    LET inflation == Get(macro, "core_inflation", 30)
        gdp == Get(macro, "gdp_growth", 20)
        s1 == 40 + (IF 15 < inflation /\ inflation < 25 /\ gdp > 20 THEN 40
                    ELSE IF inflation < 30 /\ gdp > 15 THEN 20 ELSE 0)
    IN  Min(100, s1)

score_stagflation(macro) ==
    LET inflation == Get(macro, "core_inflation", 30)
        gdp == Get(macro, "gdp_growth", 20)
        s1 == 30 + (IF inflation > 40 /\ gdp < 10 THEN 50
                    ELSE IF inflation > 30 /\ gdp < 15 THEN 25 ELSE 0)
    IN  Min(100, s1)

scenario_score_risk_off(macro) ==
    LET credit_spread == Get(macro, "credit_spread", 400)
        s1 == 30 + (IF credit_spread > 500 THEN 30 ELSE 0)
    IN  Min(100, s1)

\* the scores dict of determine, in insertion order
ScenarioOrder ==
    <<"DISINFLATION", "REACCELERATION", "GOLDILOCKS", "STAGFLATION", "RISK_OFF">>

ScenarioScores(macro) ==
    [s \in {ScenarioOrder[i] : i \in 1..Len(ScenarioOrder)} |->
        CASE s = "DISINFLATION" -> score_disinflation(macro)
          [] s = "REACCELERATION" -> score_reacceleration(macro)
          [] s = "GOLDILOCKS" -> score_goldilocks(macro)
          [] s = "STAGFLATION" -> score_stagflation(macro)
          [] s = "RISK_OFF" -> scenario_score_risk_off(macro)]

\* max(scores, key=scores.get): the first key, in insertion order, of highest score
BestScenario(macro) ==
    LET sc == ScenarioScores(macro)
        i == CHOOSE i \in 1..Len(ScenarioOrder) :
                /\ \A j \in 1..Len(ScenarioOrder) : sc[ScenarioOrder[j]] <= sc[ScenarioOrder[i]]
                /\ \A j \in 1..(i - 1) : sc[ScenarioOrder[j]] < sc[ScenarioOrder[i]]
    IN  ScenarioOrder[i]

\* mutation: the cut keeps the oldest entries
KeepFirst(seq) ==
    IF Len(seq) > SequenceCap THEN SubSeq(seq, 1, SequenceCap) ELSE seq

\* seq[-10:]
KeepLast(seq) ==
    IF Len(seq) > SequenceCap THEN SubSeq(seq, Len(seq) - SequenceCap + 1, Len(seq)) ELSE seq

\* the sequence update of determine
UpdateSequence(seq, best_scenario) ==
    IF Len(seq) = 0 \/ seq[Len(seq)] # best_scenario
    THEN KeepLast(Append(seq, best_scenario))
    ELSE seq

predict_next(scenario) ==
    CASE scenario = "DISINFLATION" -> "GOLDILOCKS"
      [] scenario = "REACCELERATION" -> "DISINFLATION"
      [] scenario = "GOLDILOCKS" -> "GOLDILOCKS"
      [] scenario = "STAGFLATION" -> "RISK_OFF"
      [] scenario = "RISK_OFF" -> "RECOVERY"
      [] scenario = "RECOVERY" -> "GOLDILOCKS"
      [] OTHER -> "UNCERTAIN"

ScenarioInit ==
    /\ sequence = <<>>
    /\ current = [scenario |-> "UNCERTAIN", probability |-> 50,
                  sequence |-> <<>>, next_prediction |-> "UNCERTAIN"]
    /\ appends = 0

\* determine on the macro_data it ends up with (after the fetcher fallback)
DetermineOn(macro_data) ==
    IF IsEmpty(macro_data) \/ ScenarioRaises(macro_data)
    THEN UNCHANGED <<sequence, current, appends>>
    ELSE LET best_scenario == BestScenario(macro_data)
             best_prob == ScenarioScores(macro_data)[best_scenario]
             seq == UpdateSequence(sequence, best_scenario)
         IN  /\ seq # sequence => appends < MaxAppends
             /\ sequence' = seq
             /\ appends' = IF seq # sequence THEN appends + 1 ELSE appends
             /\ current' = [scenario |-> best_scenario, probability |-> best_prob,
                            sequence |-> seq,
                            next_prediction |-> predict_next(best_scenario)]

\* the macro dicts determine is called with
ScenarioInputs ==
    { EmptyDict,
      [inflation_trend |-> "FALLING", gdp_growth |-> 30, core_inflation |-> 20],
      [inflation_trend |-> "FLAT", gdp_growth |-> 30, core_inflation |-> 20],
      [inflation_trend |-> "FLAT", gdp_growth |-> 5, core_inflation |-> 20,
       credit_spread |-> 600],
      [inflation_trend |-> "FLAT", gdp_growth |-> 5, core_inflation |-> 20,
       credit_spread |-> 400],
      [credit_spread |-> 400],
      [inflation_trend |-> "FLAT", gdp_growth |-> NonNumeric, core_inflation |-> 20] }

Determine(macro_data) ==
    /\ DetermineOn(macro_data)
    /\ UNCHANGED <<regimeVars, scoreVars, fetcherVars, cycleVars, callVars>>

---------------------------------------------------------------------------
(* config/settings.py: score weights.  A weight is kept as an integer
   numerator: base weight in hundredths times multiplier in tenths; the
   normalised weight of k is weights[k] / WeightSum(weights). *)

SCORE_WEIGHTS ==
    [macro_alignment |-> 15, trend_quality |-> 15, momentum |-> 10,
     volatility |-> 10, flow_positioning |-> 10, technical_structure |-> 10,
     fractal_smc |-> 10, cross_asset |-> 5, timing_seasonal |-> 5,
     risk_reward |-> 10]

REGIME_WEIGHT_ADJUSTMENTS ==
    [RISK_ON |-> [trend_quality |-> 12, momentum |-> 13, volatility |-> 8],
     RISK_OFF |-> [trend_quality |-> 8, momentum |-> 7, volatility |-> 13,
                   macro_alignment |-> 12],
     TRANSITION |-> [volatility |-> 12, flow_positioning |-> 12],
     STRESS |-> [volatility |-> 15, macro_alignment |-> 13,
                 flow_positioning |-> 13]]

\* insertion order of the components dict built by ScoreCalculator.calculate
ComponentOrder ==
    <<"macro_alignment", "trend_quality", "momentum", "volatility",
      "flow_positioning", "technical_structure", "fractal_smc", "cross_asset",
      "timing_seasonal", "risk_reward">>

ComponentNames == {ComponentOrder[i] : i \in DOMAIN ComponentOrder}

RECURSIVE SumOver(_, _)
SumOver(f, keys) ==
    IF keys = {} THEN 0
    ELSE LET k == CHOOSE x \in keys : TRUE
         IN  f[k] + SumOver(f, keys \ {k})

get_adjusted_weights_configured_only(regime) ==
    LET adjustments == Get(REGIME_WEIGHT_ADJUSTMENTS, regime, EmptyDict)
    IN  [k \in DOMAIN SCORE_WEIGHTS |->
            SCORE_WEIGHTS[k] * Get(adjustments, k, 0)]

\* a weight is kept as base weight (in hundredths) times multiplier (in
\* tenths); v / total is that number over WeightSum of the mapping
get_adjusted_weights(regime) ==
    LET adjustments == Get(REGIME_WEIGHT_ADJUSTMENTS, regime, EmptyDict)
    IN  [k \in DOMAIN SCORE_WEIGHTS |->
            SCORE_WEIGHTS[k] * Get(adjustments, k, 10)]

WeightSum(w) == SumOver(w, DOMAIN w)

\* the module's table after a call: the multipliers were applied to
\* SCORE_WEIGHTS.copy(), not to the table
TableAfter(table, regime) == table

---------------------------------------------------------------------------
(* features/calculator.py: FeatureSet and FeatureCalculator.  An OHLCV series
   is its number of bars together with what each group calculator returns on
   it (the keys the scorer reads). *)

MinBars == 50

EmptyFeatureSet(symbol) ==
    [symbol |-> symbol, trend |-> EmptyDict, momentum |-> EmptyDict,
     volatility |-> EmptyDict, fractal |-> EmptyDict, flow |-> EmptyDict,
     macro |-> EmptyDict]

normalize_macro(macro_data) ==
    [key \in {k \in DOMAIN macro_data : IsNumber(macro_data[k])} |->
        Min(100, Max(0, macro_data[key]))]

\* calculate testing only ohlcv.empty, not the length
FeatureCalculateEmptyOnly(symbol, ohlcv, macro_data) ==
    IF ohlcv.bars = 0
    THEN EmptyFeatureSet(symbol)
    ELSE [symbol |-> symbol,
          trend |-> ohlcv.trend,
          momentum |-> ohlcv.momentum,
          volatility |-> ohlcv.volatility,
          fractal |-> ohlcv.fractal,
          flow |-> ohlcv.flow,
          macro |-> IF IsEmpty(macro_data) THEN EmptyDict
                    ELSE normalize_macro(macro_data)]

FeatureCalculate(symbol, ohlcv, macro_data) ==
    IF ohlcv.bars = 0 \/ ohlcv.bars < MinBars
    THEN EmptyFeatureSet(symbol)
    ELSE [symbol |-> symbol,
          trend |-> ohlcv.trend,
          momentum |-> ohlcv.momentum,
          volatility |-> ohlcv.volatility,
          fractal |-> ohlcv.fractal,
          flow |-> ohlcv.flow,
          macro |-> IF IsEmpty(macro_data) THEN EmptyDict
                    ELSE normalize_macro(macro_data)]

FeatureCalculateBatchOf(data, macro_data) ==
    [symbol \in DOMAIN data |-> FeatureCalculate(symbol, data[symbol], macro_data)]

---------------------------------------------------------------------------
(* scoring/calculator.py: ScoreCalculator.  Component values are kept times
   Scale, so that every mean and every weighted combination is an integer;
   a total is the exact fraction num / den; a direction is kept times
   DirectionScale. *)

Scale == 60

DirectionScale == 12

score_macro(macro) ==
    IF IsEmpty(macro) THEN 50 * Scale
    ELSE (SumOver(macro, DOMAIN macro) * Scale) \div Cardinality(DOMAIN macro)

score_trend(trend) ==
    IF IsEmpty(trend) THEN 50 * Scale
    ELSE (Get(trend, "ma_alignment", 50) * 6 + Get(trend, "adx", 50) * 5
          + Get(trend, "trend_direction", 50) * 5
          + Get(trend, "lr_slope", 50) * 4) * (Scale \div 20)

score_momentum(momentum) ==
    IF IsEmpty(momentum) THEN 50 * Scale
    ELSE Get(momentum, "momentum_composite", 50) * Scale

score_volatility(volatility) ==
    IF IsEmpty(volatility) THEN 50 * Scale
    ELSE LET atr_pctl == Get(volatility, "atr_percentile", 50)
         IN  IF 30 <= atr_pctl /\ atr_pctl <= 70 THEN 80 * Scale
             ELSE IF atr_pctl < 30 THEN 60 * Scale
             ELSE 40 * Scale

score_flow(flow) ==
    IF IsEmpty(flow) THEN 50 * Scale
    ELSE (Get(flow, "mfi", 50) + Get(flow, "volume_trend", 50))
         * (Scale \div 2)

score_technical(trend, momentum) ==
    IF IsEmpty(trend) /\ IsEmpty(momentum) THEN 50 * Scale
    ELSE LET from_trend ==
                 IF IsEmpty(trend) THEN <<>>
                 ELSE <<Get(trend, "ma_alignment", 50),
                        Get(trend, "donchian_position", 50)>>
             from_momentum ==
                 IF IsEmpty(momentum) THEN <<>>
                 ELSE <<Get(momentum, "rsi_14", 50),
                        Get(momentum, "macd_signal", 50)>>
             scores_list == from_trend \o from_momentum
         IN  (SumOver(scores_list, DOMAIN scores_list) * Scale)
             \div Len(scores_list)

score_fractal(fractal) ==
    IF IsEmpty(fractal) THEN 50 * Scale
    ELSE (Get(fractal, "hurst_normalized", 50) * 3
          + Get(fractal, "smc_score", 50) * 4
          + Get(fractal, "structure_bias", 50) * 3) * (Scale \div 10)

score_risk_reward(features) ==
    LET vol == Get(features.volatility, "atr_pct", 0)
        trend_str == Get(features.trend, "adx", 25)
    IN  IF trend_str > 25 /\ vol < 3 THEN 80 * Scale
        ELSE IF trend_str > 20 THEN 60 * Scale
        ELSE 40 * Scale

VoteInclusive(v, lo, hi) ==
    IF v >= hi THEN <<1>> ELSE IF v <= lo THEN <<0 - 1>> ELSE <<>>

\* one vote of calculate_direction: +1 above hi, -1 below lo, none between
Vote(v, lo, hi) == IF v > hi THEN <<1>> ELSE IF v < lo THEN <<0 - 1>> ELSE <<>>

calculate_direction(features) ==
    LET signals ==
            Vote(Get(features.trend, "trend_direction", 50), 40, 60)
            \o Vote(Get(features.trend, "ma_alignment", 50), 25, 75)
            \o Vote(Get(features.momentum, "rsi_14", 50), 40, 60)
            \o Vote(Get(features.fractal, "structure_bias", 50), 40, 60)
    IN  IF Len(signals) > 0
        THEN (SumOver(signals, DOMAIN signals) * DirectionScale) \div Len(signals)
        ELSE 0

\* total >= threshold, for the total num / den
AtLeast(num, den, threshold) == num >= threshold * den

determine_confidence_strict(num, den) ==
    IF num > 80 * den THEN "INSTITUTIONAL"
    ELSE IF num > 70 * den THEN "HIGH"
    ELSE IF num > 55 * den THEN "MODERATE"
    ELSE "LOW"

determine_confidence(num, den) ==
    IF AtLeast(num, den, 80) THEN "INSTITUTIONAL"
    ELSE IF AtLeast(num, den, 70) THEN "HIGH"
    ELSE IF AtLeast(num, den, 55) THEN "MODERATE"
    ELSE "LOW"

\* f"{v:.0f}" of the value num / den: round to nearest, ties to even
RoundHalfEven(num, den) ==
    LET q == num \div den
        r == num % den
    IN  IF 2 * r < den THEN q
        ELSE IF 2 * r > den THEN q + 1
        ELSE IF q % 2 = 0 THEN q ELSE q + 1

\* position of each component in the components dict
ComponentIndex ==
    [name \in ComponentNames |->
        CHOOSE i \in DOMAIN ComponentOrder : ComponentOrder[i] = name]

IndexOf(name) == ComponentIndex[name]

\* position of a component in the stable descending sort by value
SortRank(components, name) ==
    1 + Cardinality({j \in ComponentNames :
            \/ components[j] > components[name]
            \/ components[j] = components[name] /\ IndexOf(j) < IndexOf(name)})

TopN == 3

identify_top_drivers(components) ==
    [i \in 1..TopN |->
        LET name == CHOOSE k \in ComponentNames : SortRank(components, k) = i
        IN  [name |-> name, value |-> RoundHalfEven(components[name], Scale)]]

FallbackScore(symbol) ==
    [symbol |-> symbol, total |-> [num |-> 0, den |-> 1], direction |-> 0,
     confidence |-> "LOW", components |-> EmptyDict, top_drivers |-> <<>>]

\* the try block of calculate raises: np.mean of a macro group holding a
\* value that is not a number
CalculateRaises(features) ==
    \E k \in DOMAIN features.macro : ~IsNumber(features.macro[k])

ComponentsOf(features) ==
    [macro_alignment |-> score_macro(features.macro),
     trend_quality |-> score_trend(features.trend),
     momentum |-> score_momentum(features.momentum),
     volatility |-> score_volatility(features.volatility),
     flow_positioning |-> score_flow(features.flow),
     technical_structure |-> score_technical(features.trend, features.momentum),
     fractal_smc |-> score_fractal(features.fractal),
     cross_asset |-> 50 * Scale,
     timing_seasonal |-> 50 * Scale,
     risk_reward |-> score_risk_reward(features)]

\* the try block of calculate, when nothing raises
CalculateBody(features, w) ==
    LET components == ComponentsOf(features)
        num == SumOver([k \in ComponentNames |-> components[k] * Get(w, k, 0)],
                       ComponentNames)
        den == Scale * WeightSum(w)
    IN  [symbol |-> features.symbol,
         total |-> [num |-> Min(100 * den, Max(0, num)), den |-> den],
         direction |-> calculate_direction(features),
         confidence |-> determine_confidence(num, den),
         components |-> components,
         top_drivers |-> identify_top_drivers(components)]

\* calculate without its except branch: the exception leaves the call
ScoreCalculateNoExcept(features, w) ==
    IF CalculateRaises(features)
    THEN [raised |-> TRUE, score |-> FallbackScore(features.symbol)]
    ELSE [raised |-> FALSE, score |-> CalculateBody(features, w)]

\* the outcome of ScoreCalculator.calculate: whether an exception left the
\* call, and the AssetScore returned
ScoreCalculate(features, w) ==
    IF CalculateRaises(features)
    THEN [raised |-> FALSE, score |-> FallbackScore(features.symbol)]
    ELSE [raised |-> FALSE, score |-> CalculateBody(features, w)]

\* the loop of ScoreCalculator.calculate_batch over the symbols in order
RECURSIVE BatchLoop(_, _, _, _)
BatchLoop(symbols, fd, w, acc) ==
    IF Len(symbols) = 0 THEN [raised |-> FALSE, scores |-> acc]
    ELSE LET symbol == Head(symbols)
             out == ScoreCalculate(fd[symbol], w)
         IN  IF out.raised THEN [raised |-> TRUE, scores |-> acc]
             ELSE BatchLoop(Tail(symbols), fd, w,
                            [s \in DOMAIN acc \cup {symbol} |->
                                IF s = symbol THEN out.score ELSE acc[s]])

ScoreInit ==
    /\ score_regime = "RISK_ON"
    /\ weights = get_adjusted_weights("RISK_ON")
    /\ market_data = EmptyDict
    /\ features_dict = EmptyDict
    /\ scores = EmptyDict
    /\ escaped = FALSE
    /\ scored_weights = EmptyDict

\* the labels set_regime is called with (UNCERTAIN has no adjustment entry)
Regimes == {"RISK_ON", "RISK_OFF", "TRANSITION", "STRESS", "UNCERTAIN"}

set_regime(regime) ==
    /\ score_regime' = regime
    /\ weights' = get_adjusted_weights(regime)
    /\ UNCHANGED <<market_data, features_dict, scores, escaped, scored_weights>>
    /\ UNCHANGED <<regimeVars, scenarioVars, fetcherVars, cycleVars, callVars>>

Symbols == <<"AAA", "BBB">>

SymbolSet == {Symbols[i] : i \in DOMAIN Symbols}

\* the symbols of a dict in insertion order
SymbolsOf(d) == SelectSeq(Symbols, LAMBDA s : s \in DOMAIN d)

TrendOf(ma, adx, td, lr, dc) ==
    [ma_alignment |-> ma, adx |-> adx, trend_direction |-> td,
     lr_slope |-> lr, donchian_position |-> dc]

MomentumOf(composite, rsi, macd) ==
    [momentum_composite |-> composite, rsi_14 |-> rsi, macd_signal |-> macd]

VolatilityOf(pctl, pct) == [atr_percentile |-> pctl, atr_pct |-> pct]

FractalOf(hurst, smc, structure) ==
    [hurst_normalized |-> hurst, smc_score |-> smc, structure_bias |-> structure]

FlowOf(mfi, volume_trend) == [mfi |-> mfi, volume_trend |-> volume_trend]

Ohlcv(bars, trend, momentum, volatility, fractal, flow) ==
    [bars |-> bars, trend |-> trend, momentum |-> momentum,
     volatility |-> volatility, fractal |-> fractal, flow |-> flow]

\* the series the feature calculator is run on: what the group calculators
\* return on them, with every value in the range its calculator produces
OhlcvProfiles(bars) ==
    { Ohlcv(bars, TrendOf(100, 40, 100, 75, 60), MomentumOf(80, 60, 100),
            VolatilityOf(50, 1), FractalOf(85, 80, 75), FlowOf(60, 100)),
      Ohlcv(bars, TrendOf(100, 30, 50, 100, 40), MomentumOf(70, 40, 100),
            VolatilityOf(50, 1), FractalOf(65, 70, 75), FlowOf(40, 100)),
      Ohlcv(bars, TrendOf(50, 30, 50, 75, 50), MomentumOf(50, 60, 0),
            VolatilityOf(50, 1), FractalOf(50, 50, 50), FlowOf(0, 100)),
      Ohlcv(bars, TrendOf(50, 25, 50, 50, 50), MomentumOf(50, 50, 50),
            VolatilityOf(50, 0), FractalOf(50, 50, 50), FlowOf(50, 50)),
      Ohlcv(bars, TrendOf(100, 100, 100, 100, 100), MomentumOf(100, 100, 100),
            VolatilityOf(20, 1), FractalOf(100, 80, 75), FlowOf(100, 100)),
      Ohlcv(bars, TrendOf(0, 10, 0, 0, 0), MomentumOf(0, 0, 0),
            VolatilityOf(90, 5), FractalOf(0, 25, 25), FlowOf(0, 0)) }

\* bar counts around the 50-bar minimum
BarCounts == {0, 40, 49, 300}

StrongSeries(bars) ==
    Ohlcv(bars, TrendOf(100, 40, 100, 75, 60), MomentumOf(80, 60, 100),
          VolatilityOf(50, 1), FractalOf(85, 80, 75), FlowOf(60, 100))

OhlcvInputs == OhlcvProfiles(MinBars) \cup {StrongSeries(bars) : bars \in BarCounts}

\* the market data of a scoring pass: one symbol runs over the inputs while
\* the other holds a 40-bar series
MarketDataInputs ==
    {[s \in SymbolSet |-> IF s = "AAA" THEN ohlcv ELSE StrongSeries(40)] :
        ohlcv \in OhlcvInputs}
    \cup {[s \in SymbolSet |-> IF s = "BBB" THEN ohlcv ELSE StrongSeries(40)] :
            ohlcv \in OhlcvProfiles(MinBars)}

\* the macro_data handed to FeatureCalculator.calculate_batch
MacroFeatureInputs ==
    { EmptyDict,
      [macro_risk_on |-> 100, macro_stress |-> 100, macro_usd_strength |-> 100],
      [macro_risk_on |-> 130, macro_stress |-> NonNumeric,
       macro_usd_strength |-> 0 - 20] }

\* ScoreCalculator.calculate_batch(features_dict) under the weights w
ScoreBatchOn(fd, w) ==
    LET out == BatchLoop(SymbolsOf(fd), fd, w, EmptyDict)
    IN  /\ features_dict' = fd
        /\ escaped' = out.raised
        /\ scores' = IF out.raised THEN EmptyDict ELSE out.scores
        /\ scored_weights' = w

\* steps 3 and 4 of a cycle: feature_calc.calculate_batch(market_data,
\* macro_features), then score_calc.calculate_batch(features)
FeaturesThenScores(data, macro_data) ==
    /\ market_data' = data
    /\ ScoreBatchOn(FeatureCalculateBatchOf(data, macro_data), weights)
    /\ UNCHANGED <<score_regime, weights>>
    /\ UNCHANGED <<regimeVars, scenarioVars, fetcherVars, cycleVars, callVars>>

\* FeatureSets a caller builds itself, the macro group being injected
\* separately: a value that is not a number, a value outside 0..100
SuppliedMacros == {[level |-> NonNumeric], [level |-> 900], [level |-> 50]}

SuppliedFeatureSet(symbol, macro) ==
    [EmptyFeatureSet(symbol) EXCEPT !.macro = macro]

\* score_calc.calculate_batch on FeatureSets built by its caller
ScoreCalculateBatch(fd) ==
    /\ market_data' = EmptyDict
    /\ ScoreBatchOn(fd, weights)
    /\ UNCHANGED <<score_regime, weights>>
    /\ UNCHANGED <<regimeVars, scenarioVars, fetcherVars, cycleVars, callVars>>

---------------------------------------------------------------------------
(* data/fetchers/macro.py and data/fetchers/base.py: MacroFetcher.  A frame
   is the 'value' column of a DataFrame (NaN for a missing value) with the
   age in days of its last index date; its rows are consecutive days.  The
   model follows six of the configured series.  Every call of a behaviour
   falls on one calendar day, so the start and end strings of a cache key are
   fixed by the window alone. *)

Put(d, k, v) == [x \in DOMAIN d \cup {k} |-> IF x = k THEN v ELSE d[x]]

Merge(d, e) == [x \in DOMAIN d \cup DOMAIN e |-> IF x \in DOMAIN e THEN e[x] ELSE d[x]]

Last(s) == s[Len(s)]

IsValid(v) == v # NaN

DropNa(values) == SelectSeq(values, IsValid)

Frame(values, age) == [error |-> FALSE, values |-> values, age |-> age]

\* the upstream call raises
FetchError == [error |-> TRUE, values |-> <<>>, age |-> 0]

EmptyFrame == Frame(<<>>, 0)

FrameEmpty(df) == Len(df.values) = 0

safe_float(v) == IF v = None \/ v = NaN THEN None ELSE v

FRED_SERIES ==
    [CPI |-> "CPIAUCSL", TREASURY_10Y |-> "DGS10",
     YIELD_CURVE_10Y2Y |-> "T10Y2Y", HY_SPREAD |-> "BAMLH0A0HYM2",
     DOLLAR_INDEX |-> "DTWEXBGS", FINANCIAL_STRESS_INDEX |-> "STLFSI4",
     NFCI |-> "NFCI"]

\* the series of get_macro_snapshot's loop that the model follows, in order
SeriesNames ==
    <<"TREASURY_10Y", "YIELD_CURVE_10Y2Y", "HY_SPREAD", "DOLLAR_INDEX",
      "FINANCIAL_STRESS_INDEX", "NFCI">>

SeriesSet == {SeriesNames[i] : i \in DOMAIN SeriesNames}

domain_for_series(name) ==
    CASE name = "CPI" -> "inflation"
      [] name \in {"TREASURY_10Y", "YIELD_CURVE_10Y2Y"} -> "rates"
      [] name = "HY_SPREAD" -> "credit"
      [] name = "DOLLAR_INDEX" -> "fx"
      [] name \in {"FINANCIAL_STRESS_INDEX", "NFCI"} -> "markets"
      [] name = "GOLD" -> "commodities"
      [] name = "VIX" -> "markets"
      [] OTHER -> "other"

fetch_always_asks(c, available, series_id, window, outcome) ==
    IF ~available THEN [df |-> EmptyFrame, cache |-> c, asked |-> FALSE]
    ELSE IF outcome.error \/ FrameEmpty(outcome)
    THEN [df |-> EmptyFrame, cache |-> c, asked |-> TRUE]
    ELSE [df |-> outcome, cache |-> Put(c, <<series_id, window>>, outcome),
          asked |-> TRUE]

\* BaseFetcher._get_cached / _set_cache inside MacroFetcher.fetch; asked
\* tells whether fred.get_series was called
fetch(c, available, series_id, window, outcome) ==
    IF ~available THEN [df |-> EmptyFrame, cache |-> c, asked |-> FALSE]
    ELSE LET key == <<series_id, window>>
         IN  IF key \in DOMAIN c /\ ~FrameEmpty(c[key])
             THEN [df |-> c[key], cache |-> c, asked |-> FALSE]
             ELSE IF outcome.error \/ FrameEmpty(outcome)
             THEN [df |-> EmptyFrame, cache |-> c, asked |-> TRUE]
             ELSE [df |-> outcome, cache |-> Put(c, key, outcome), asked |-> TRUE]

\* what fred.get_series_info returns for a series of the model
SeriesInfo == [frequency_short |-> "D", units |-> "Percent"]

get_series_info_retries(ic, available, series_id, info_ok) ==
    IF series_id \in DOMAIN ic /\ ~IsEmpty(ic[series_id])
    THEN [info |-> ic[series_id], info_cache |-> ic]
    ELSE IF ~available \/ ~info_ok
    THEN [info |-> EmptyDict, info_cache |-> ic]
    ELSE [info |-> SeriesInfo, info_cache |-> Put(ic, series_id, SeriesInfo)]

get_series_info(ic, available, series_id, info_ok) ==
    IF series_id \in DOMAIN ic THEN [info |-> ic[series_id], info_cache |-> ic]
    ELSE IF ~available \/ ~info_ok
    THEN [info |-> EmptyDict, info_cache |-> Put(ic, series_id, EmptyDict)]
    ELSE [info |-> SeriesInfo, info_cache |-> Put(ic, series_id, SeriesInfo)]

staleness_threshold_days(frequency_short) ==
    CASE frequency_short = "D" -> 7
      [] frequency_short = "W" -> 21
      [] frequency_short = "M" -> 60
      [] frequency_short = "Q" -> 150
      [] frequency_short = "A" -> 450
      [] OTHER -> 60

\* one pass of the loop over the series names
SeriesStep(acc, name, upstream) ==
    LET series_id == FRED_SERIES[name]
        got == get_series_info(acc.info_cache, TRUE, series_id, upstream.info_ok)
        frequency_short == Get(got.info, "frequency_short", "None")
        threshold == staleness_threshold_days(frequency_short)
        fetched == fetch(acc.cache, TRUE, series_id, "2y", upstream.fred[name])
        df == fetched.df
        base == [acc EXCEPT !.info_cache = got.info_cache, !.cache = fetched.cache]
        meta == [series_id |-> series_id, domain |-> domain_for_series(name),
                 source |-> "FRED", frequency_short |-> frequency_short,
                 staleness_threshold_days |-> threshold]
    IN  IF FrameEmpty(df)
        THEN [base EXCEPT
                !.missing = Append(@, name),
                !.series_meta = Put(@, name, Put(meta, "available", FALSE))]
        ELSE LET value == safe_float(Last(df.values))
                 dated == Put(meta, "staleness_days", df.age)
                 with_history == [base EXCEPT !.histories = Put(@, name, df)]
             IN  IF value = None
                 THEN [with_history EXCEPT
                         !.missing = Append(@, name),
                         !.series_meta = Put(@, name, Put(dated, "available", FALSE))]
                 ELSE [with_history EXCEPT
                         !.raw_latest = Put(@, name,
                             [value |-> value, age |-> df.age, series_id |-> series_id,
                              domain |-> domain_for_series(name), source |-> "FRED",
                              frequency_short |-> frequency_short]),
                         !.series_meta = Put(@, name, Put(dated, "available", TRUE)),
                         !.flat = Put(@, name, value)]

RECURSIVE SeriesLoop(_, _, _)
SeriesLoop(names, acc, upstream) ==
    IF Len(names) = 0 THEN acc
    ELSE SeriesLoop(Tail(names), SeriesStep(acc, Head(names), upstream), upstream)

\* _format_timeseries of a column whose last row is age days old: the rows
\* that hold a value, each with its date (in days relative to today)
DatedRows(values, age) ==
    [i \in 1..Len(values) |->
        [date |-> 0 - age - (Len(values) - i), value |-> values[i]]]

RowIsValid(row) == row.value # NaN

format_timeseries(values, age) == SelectSeq(DatedRows(values, age), RowIsValid)

\* the Close column of a price history, NaN dropped; empty when the download
\* raised or returned nothing
CloseOf(quote) == IF quote.error THEN <<>> ELSE DropNa(quote.values)

\* _staleness_days of the last row that holds a value
CloseAge(quote) ==
    LET valid == {i \in DOMAIN quote.values : quote.values[i] # NaN}
        last_valid == CHOOSE i \in valid : \A j \in valid : j <= i
    IN  quote.age + (Len(quote.values) - last_valid)

\* the ^VIX block
VixStep(acc, yf_available, upstream) ==
    LET vix_series == CloseOf(upstream.vix)
    IN  IF ~yf_available \/ Len(vix_series) = 0 THEN acc
        ELSE [acc EXCEPT
                !.vix_value = Last(vix_series),
                !.vix_series = vix_series,
                !.raw_latest = Put(@, "VIX",
                    [value |-> Last(vix_series), age |-> CloseAge(upstream.vix),
                     series_id |-> "^VIX", domain |-> "markets",
                     source |-> "YFINANCE"]),
                !.series_meta = Put(@, "VIX",
                    [series_id |-> "^VIX", domain |-> "markets",
                     source |-> "YFINANCE", available |-> TRUE,
                     frequency_short |-> "D", staleness_threshold_days |-> 5,
                     staleness_days |-> CloseAge(upstream.vix)]),
                !.flat = Put(Put(@, "VIX", Last(vix_series)), "vix", Last(vix_series)),
                !.timeseries = Put(@, "VIX",
                    format_timeseries(upstream.vix.values, upstream.vix.age))]

gold_tickers == <<"GC=F", "XAUUSD=X">>

\* the ticker the gold loop stops at: 0 when a download raises before any
\* ticker has closes, or when none has
RECURSIVE GoldUsed(_, _)
GoldUsed(quotes, i) ==
    IF i > Len(quotes) THEN 0
    ELSE IF quotes[i].error THEN 0
    ELSE IF Len(DropNa(quotes[i].values)) = 0 THEN GoldUsed(quotes, i + 1)
    ELSE i

\* the gold block
GoldStep(acc, yf_available, upstream) ==
    LET used == IF yf_available THEN GoldUsed(upstream.gold, 1) ELSE 0
    IN  IF used = 0 THEN acc
        ELSE LET quote == upstream.gold[used]
                 gold_series == DropNa(quote.values)
             IN  [acc EXCEPT
                    !.raw_latest = Put(@, "GOLD",
                        [value |-> Last(gold_series), age |-> CloseAge(quote),
                         series_id |-> gold_tickers[used],
                         domain |-> "commodities", source |-> "YFINANCE"]),
                    !.series_meta = Put(@, "GOLD",
                        [series_id |-> gold_tickers[used], domain |-> "commodities",
                         source |-> "YFINANCE", available |-> TRUE,
                         frequency_short |-> "D", staleness_threshold_days |-> 5,
                         staleness_days |-> CloseAge(quote)]),
                    !.flat = Put(@, "GOLD", Last(gold_series)),
                    !.timeseries = Put(@, "GOLD",
                        format_timeseries(quote.values, quote.age))]

\* _calculate_trend('CPI') on the frame fetch returned: the year-on-year
\* change (12 rows back) over the last 6 rows that have one, compared without
\* dividing (the values are positive)
calculate_trend(df) ==
    IF FrameEmpty(df) THEN "UNKNOWN"
    ELSE LET s == DropNa(df.values)
             yoy_count == IF Len(s) > 12 THEN Len(s) - 12 ELSE 0
             first == IF yoy_count > 6 THEN Len(s) - 5 ELSE 13
         IN  IF yoy_count < 2 THEN "UNKNOWN"
             ELSE IF s[Len(s)] * s[first - 12] > s[first] * s[Len(s) - 12]
             THEN "RISING"
             ELSE IF s[Len(s)] * s[first - 12] < s[first] * s[Len(s) - 12]
             THEN "FALLING"
             ELSE "FLAT"

\* the HY_SPREAD entry of _derive_from_histories
DerivedCreditSpread(v) == IF v < 50 THEN v * 100 ELSE v

derive_from_histories(histories, trend) ==
    LET with_trend == [inflation_trend |-> trend]
        with_curve ==
            IF "YIELD_CURVE_10Y2Y" \in DOMAIN histories
               /\ safe_float(Last(histories["YIELD_CURVE_10Y2Y"].values)) # None
            THEN Put(with_trend, "yield_curve",
                     Last(histories["YIELD_CURVE_10Y2Y"].values))
            ELSE with_trend
    IN  IF "HY_SPREAD" \in DOMAIN histories
           /\ safe_float(Last(histories["HY_SPREAD"].values)) # None
        THEN Put(with_curve, "credit_spread",
                 DerivedCreditSpread(Last(histories["HY_SPREAD"].values)))
        ELSE with_curve

\* the credit_spread entry get_macro_snapshot writes into flat
FlatCreditSpread(hy_value) == IF hy_value < 50 THEN hy_value * 100 ELSE hy_value

MinSamples == 20

\* searchsorted(arr, value, side='right') / arr.size * 100: a whole number
\* for the histories of the model, which hold 20 or 25 values when they hold
\* 20 or more
series_percentile_counts_nan(s, value) ==
    IF Len(s) < MinSamples THEN 50
    ELSE IF Len(DropNa(s)) = 0 THEN 0
    ELSE (Cardinality({i \in DOMAIN DropNa(s) : DropNa(s)[i] <= value}) * 100)
         \div Len(DropNa(s))

series_percentile(s, value) ==
    IF Len(s) < MinSamples \/ Len(DropNa(s)) < MinSamples THEN 50
    ELSE (Cardinality({i \in DOMAIN DropNa(s) : DropNa(s)[i] <= value}) * 100)
         \div Len(DropNa(s))

\* (value - mu) / sigma, kept exactly as n * (value - mu) over the square root
\* of n * n * sigma^2
series_zscore(s, value) ==
    IF Len(s) < MinSamples \/ Len(DropNa(s)) < MinSamples THEN 0
    ELSE LET arr == DropNa(s)
             n == Len(arr)
             total == SumOver(arr, DOMAIN arr)
             squares == SumOver([i \in DOMAIN arr |-> arr[i] * arr[i]], DOMAIN arr)
         IN  IF n * squares - total * total = 0 THEN 0
             ELSE [dev |-> n * value - total, var |-> n * squares - total * total]

\* the series whose history _build_stats and _build_macro_features read
StatsSeries ==
    {"YIELD_CURVE_10Y2Y", "HY_SPREAD", "DOLLAR_INDEX", "FINANCIAL_STRESS_INDEX",
     "NFCI"}

\* float(df['value'].dropna().iloc[-1]) on a frame with no value: IndexError
StatsRaise(histories) ==
    \E name \in StatsSeries \cap DOMAIN histories :
        Len(DropNa(histories[name].values)) = 0

\* the k-th smallest entry of a sequence
KthSmallest(s, k) ==
    CHOOSE v \in {s[i] : i \in DOMAIN s} :
        /\ Cardinality({i \in DOMAIN s : s[i] < v}) < k
        /\ k <= Cardinality({i \in DOMAIN s : s[i] <= v})

\* median of a non-empty sequence below a bound (the mean of the two middle
\* entries when the length is even)
MedianBelow(s, bound) ==
    IF Len(s) % 2 = 1 THEN KthSmallest(s, (Len(s) + 1) \div 2) < bound
    ELSE KthSmallest(s, Len(s) \div 2) + KthSmallest(s, Len(s) \div 2 + 1)
            < 2 * bound

\* hist_bps of _build_stats: the whole history times 100 when its median is
\* below 50
HistBps(values) ==
    LET s == DropNa(values)
    IN  IF MedianBelow(s, 50) THEN [i \in DOMAIN s |-> s[i] * 100] ELSE s

StatsBps(raw) == IF raw < 50 THEN raw * 100 ELSE raw

\* the percentile and z-score of the last value a history holds, under the
\* two keys of the indicator; nothing when the series has no history
HistoryStats(histories, name, pct_key, z_key) ==
    IF name \in DOMAIN histories
    THEN (pct_key :> series_percentile(histories[name].values,
                                       Last(DropNa(histories[name].values))))
         @@ (z_key :> series_zscore(histories[name].values,
                                    Last(DropNa(histories[name].values))))
    ELSE EmptyDict

\* the same for HY_SPREAD, in basis points
SpreadStats(histories) ==
    IF "HY_SPREAD" \in DOMAIN histories
    THEN [credit_spread_percentile_2y |->
              series_percentile(HistBps(histories["HY_SPREAD"].values),
                  StatsBps(Last(DropNa(histories["HY_SPREAD"].values)))),
          credit_spread_zscore_2y |->
              series_zscore(HistBps(histories["HY_SPREAD"].values),
                  StatsBps(Last(DropNa(histories["HY_SPREAD"].values))))]
    ELSE EmptyDict

\* the VIX entries, written only for a history of more than 20 closes
VixStats(vix_value, vix_series) ==
    IF vix_value # None /\ Len(vix_series) > 20
    THEN [vix_percentile_2y |-> series_percentile(vix_series, vix_value),
          vix_zscore_2y |-> series_zscore(vix_series, vix_value),
          vix_level |-> vix_value]
    ELSE EmptyDict

build_stats(histories, vix_value, vix_series) ==
    Merge(Merge(Merge(Merge(Merge(
        HistoryStats(histories, "YIELD_CURVE_10Y2Y",
                     "yield_curve_percentile_2y", "yield_curve_zscore_2y"),
        SpreadStats(histories)),
        HistoryStats(histories, "DOLLAR_INDEX",
                     "dollar_index_percentile_2y", "dollar_index_zscore_2y")),
        HistoryStats(histories, "FINANCIAL_STRESS_INDEX",
                     "financial_stress_percentile_2y", "financial_stress_zscore_2y")),
        HistoryStats(histories, "NFCI", "nfci_percentile_2y", "nfci_zscore_2y")),
        VixStats(vix_value, vix_series))

\* np.mean of a non-empty list of percentiles (a whole number for the
\* histories of the model)
MeanOf(parts) == SumOver(parts, DOMAIN parts) \div Len(parts)

\* a percentile of _build_macro_features as a list: empty stands for None
HistoryPct(histories, name) ==
    IF name \in DOMAIN histories
    THEN <<series_percentile(histories[name].values,
                             Last(DropNa(histories[name].values)))>>
    ELSE <<>>

SpreadPct(histories) ==
    IF "HY_SPREAD" \in DOMAIN histories
    THEN <<series_percentile(HistBps(histories["HY_SPREAD"].values),
                             StatsBps(Last(DropNa(histories["HY_SPREAD"].values))))>>
    ELSE <<>>

VixPct(vix_value, vix_series) ==
    IF vix_value # None /\ Len(vix_series) > 20
    THEN <<series_percentile(vix_series, vix_value)>>
    ELSE <<>>

InvKeeps(p) == p

\* inv, on the list form
Inv(p) == [i \in DOMAIN p |-> 100 - p[i]]

\* float(np.mean(vals)) if vals else 50.0, clamped to [0, 100]
ClampedMean(vals) ==
    Min(100, Max(0, IF Len(vals) > 0 THEN MeanOf(vals) ELSE 50))

build_macro_features(histories, vix_value, vix_series) ==
    [macro_risk_on |->
        ClampedMean(Inv(VixPct(vix_value, vix_series)) \o Inv(SpreadPct(histories))
                    \o HistoryPct(histories, "YIELD_CURVE_10Y2Y")
                    \o Inv(HistoryPct(histories, "FINANCIAL_STRESS_INDEX"))
                    \o Inv(HistoryPct(histories, "NFCI"))),
     macro_stress |->
        ClampedMean(VixPct(vix_value, vix_series) \o SpreadPct(histories)
                    \o Inv(HistoryPct(histories, "YIELD_CURVE_10Y2Y"))
                    \o HistoryPct(histories, "FINANCIAL_STRESS_INDEX")
                    \o HistoryPct(histories, "NFCI")),
     macro_usd_strength |->
        ClampedMean(HistoryPct(histories, "DOLLAR_INDEX"))]

\* the names whose history goes into snapshot['timeseries']
TimeseriesNames ==
    {"YIELD_CURVE_10Y2Y", "HY_SPREAD", "DOLLAR_INDEX", "TREASURY_10Y",
     "FINANCIAL_STRESS_INDEX", "NFCI"}

build_timeseries(histories) ==
    [name \in TimeseriesNames \cap DOMAIN histories |->
        format_timeseries(histories[name].values, histories[name].age)]

stale_series(series_meta) ==
    [name \in {n \in DOMAIN series_meta :
                  /\ "staleness_days" \in DOMAIN series_meta[n]
                  /\ series_meta[n].staleness_days
                        > series_meta[n].staleness_threshold_days} |->
        [staleness_days |-> series_meta[name].staleness_days,
         threshold_days |-> series_meta[name].staleness_threshold_days]]

build_domains(raw_latest) ==
    [domain \in {raw_latest[n].domain : n \in DOMAIN raw_latest} |->
        [latest |-> [n \in {m \in DOMAIN raw_latest : raw_latest[m].domain = domain}
                        |-> raw_latest[n].value],
         asof |-> [n \in {m \in DOMAIN raw_latest : raw_latest[m].domain = domain}
                        |-> raw_latest[n].age]]]

MinChangeRows == 5

\* the f'{name}_{change}' keys of _build_changes
ChangeKey ==
    [TREASURY_10Y |->
        [change_1w |-> "TREASURY_10Y_change_1w", change_1m |-> "TREASURY_10Y_change_1m",
         change_1y |-> "TREASURY_10Y_change_1y",
         pct_change_1m |-> "TREASURY_10Y_pct_change_1m"],
     YIELD_CURVE_10Y2Y |->
        [change_1w |-> "YIELD_CURVE_10Y2Y_change_1w",
         change_1m |-> "YIELD_CURVE_10Y2Y_change_1m",
         change_1y |-> "YIELD_CURVE_10Y2Y_change_1y",
         pct_change_1m |-> "YIELD_CURVE_10Y2Y_pct_change_1m"],
     HY_SPREAD |->
        [change_1w |-> "HY_SPREAD_change_1w", change_1m |-> "HY_SPREAD_change_1m",
         change_1y |-> "HY_SPREAD_change_1y",
         pct_change_1m |-> "HY_SPREAD_pct_change_1m"],
     DOLLAR_INDEX |->
        [change_1w |-> "DOLLAR_INDEX_change_1w",
         change_1m |-> "DOLLAR_INDEX_change_1m",
         change_1y |-> "DOLLAR_INDEX_change_1y",
         pct_change_1m |-> "DOLLAR_INDEX_pct_change_1m"],
     FINANCIAL_STRESS_INDEX |->
        [change_1w |-> "FINANCIAL_STRESS_INDEX_change_1w",
         change_1m |-> "FINANCIAL_STRESS_INDEX_change_1m",
         change_1y |-> "FINANCIAL_STRESS_INDEX_change_1y",
         pct_change_1m |-> "FINANCIAL_STRESS_INDEX_pct_change_1m"],
     NFCI |->
        [change_1w |-> "NFCI_change_1w", change_1m |-> "NFCI_change_1m",
         change_1y |-> "NFCI_change_1y",
         pct_change_1m |-> "NFCI_pct_change_1m"]]

\* val_at: the last value dated at or before dt, None when there is none
val_at(rows, dt) ==
    LET at_or_before == {i \in DOMAIN rows : rows[i].date <= dt}
    IN  IF at_or_before = {} THEN None
        ELSE rows[CHOOSE i \in at_or_before : \A j \in at_or_before : j <= i].value

ChangeFrom(last_val, v) == IF v # None THEN last_val - v ELSE None

\* what _build_changes adds for one history.  The series of the model are
\* daily; one whose metadata lookup failed has no frequency and gets the
\* one-year change alone.
ChangesOf(name, df, series_meta) ==
    LET rows == format_timeseries(df.values, df.age)
        last_dt == 0 - df.age
        last_val == Last(rows).value
        freq == IF name \in DOMAIN series_meta
                THEN Get(series_meta[name], "frequency_short", "None")
                ELSE "None"
        key == ChangeKey[name]
    IN  IF Len(rows) < MinChangeRows THEN EmptyDict
        ELSE IF freq \in {"D", "W"}
        THEN LET v_1w == val_at(rows, last_dt - 7)
                 v_1m == val_at(rows, last_dt - 30)
                 deltas == Put(Put(EmptyDict, key.change_1w, ChangeFrom(last_val, v_1w)),
                               key.change_1m, ChangeFrom(last_val, v_1m))
             IN  IF v_1m # None /\ v_1m # 0
                 THEN Put(deltas, key.pct_change_1m,
                          [num |-> (last_val - v_1m) * 100, den |-> v_1m])
                 ELSE deltas
        ELSE Put(EmptyDict, key.change_1y,
                 ChangeFrom(last_val, val_at(rows, last_dt - 365)))

RECURSIVE ChangesLoop(_, _, _)
ChangesLoop(names, histories, series_meta) ==
    IF Len(names) = 0 THEN EmptyDict
    ELSE Merge(IF Head(names) \in DOMAIN histories
               THEN ChangesOf(Head(names), histories[Head(names)], series_meta)
               ELSE EmptyDict,
               ChangesLoop(Tail(names), histories, series_meta))

build_changes(histories, series_meta) == ChangesLoop(SeriesNames, histories, series_meta)

ScalarEntriesWithNone(derived) == derived

\* {k: v for k, v in derived.items() if isinstance(v, (int, float, str))}:
\* the entries that are not None (only a change can be None)
ScalarEntries(derived) ==
    LET change_keys == UNION {{ChangeKey[name].change_1w, ChangeKey[name].change_1m,
                               ChangeKey[name].change_1y} : name \in DOMAIN ChangeKey}
        kept == {k \in DOMAIN derived : k \in change_keys => derived[k] # None}
    IN  [k \in kept |-> derived[k]]

\* flat after the derived block: the scalar entries of derived, credit_spread
\* in basis points from HY_SPREAD, yield_curve from YIELD_CURVE_10Y2Y
BuildFlat(flat, derived) ==
    LET flat_derived == Merge(flat, ScalarEntries(derived))
        flat_spread ==
            IF "HY_SPREAD" \in DOMAIN flat_derived
            THEN Put(flat_derived, "credit_spread",
                     FlatCreditSpread(flat_derived["HY_SPREAD"]))
            ELSE flat_derived
    IN  IF "YIELD_CURVE_10Y2Y" \in DOMAIN flat_spread
        THEN Put(flat_spread, "yield_curve", flat_spread["YIELD_CURVE_10Y2Y"])
        ELSE flat_spread

\* the structure get_macro_snapshot returns, unless _build_stats raised
AssembleSnapshot(fred_ok, yf_ok, quoted, flat_curve, all_derived, features, raised) ==
    IF raised THEN EmptyDict
    ELSE [availability |-> [fred_available |-> fred_ok,
                            yfinance_available |-> yf_ok],
          quality |-> [missing_count |-> Len(quoted.missing),
                       missing |-> quoted.missing,
                       stale |-> stale_series(quoted.series_meta)],
          domains |-> build_domains(quoted.raw_latest),
          series_meta |-> quoted.series_meta,
          raw_latest |-> quoted.raw_latest,
          derived |-> all_derived,
          flat |-> Merge(Merge(flat_curve, ScalarEntries(all_derived)), features),
          features |-> features,
          timeseries |-> Merge(quoted.timeseries, build_timeseries(quoted.histories)),
          missing |-> quoted.missing]

\* get_macro_snapshot from the derived block on; quoted is what the series
\* loop and the VIX and GOLD blocks have collected
SnapshotOf(fred_ok, yf_ok, quoted, upstream) ==
    LET trend_fetch == fetch(quoted.cache, fred_ok, FRED_SERIES["CPI"], "5y",
                             upstream.cpi)
        derived == derive_from_histories(quoted.histories,
                                         calculate_trend(trend_fetch.df))
    IN  [raised |-> StatsRaise(quoted.histories),
         cache |-> trend_fetch.cache,
         info_cache |-> quoted.info_cache,
         snapshot |->
            AssembleSnapshot(fred_ok, yf_ok, quoted,
                BuildFlat(quoted.flat, derived),
                Merge(Merge(derived,
                            build_changes(quoted.histories, quoted.series_meta)),
                      build_stats(quoted.histories, quoted.vix_value,
                                  quoted.vix_series)),
                build_macro_features(quoted.histories, quoted.vix_value,
                                     quoted.vix_series),
                StatsRaise(quoted.histories))]

\* get_macro_snapshot on the fetcher's caches: whether it raised, the
\* snapshot it returned and the caches it leaves
MacroSnapshot(c, ic, fred_ok, yf_ok, upstream) ==
    LET start == [missing |-> <<>>, series_meta |-> EmptyDict,
                  raw_latest |-> EmptyDict, flat |-> EmptyDict,
                  timeseries |-> EmptyDict, histories |-> EmptyDict,
                  cache |-> c, info_cache |-> ic,
                  vix_value |-> None, vix_series |-> <<>>]
    IN  SnapshotOf(fred_ok, yf_ok,
            GoldStep(VixStep(IF fred_ok THEN SeriesLoop(SeriesNames, start, upstream)
                             ELSE start,
                             yf_ok, upstream),
                     yf_ok, upstream),
            upstream)

---------------------------------------------------------------------------
(* analysis/meso.py: the 'daily' part of MesoAnalyzer.analyze *)

value_at_or_before_strict(points, target) ==
    LET before == {i \in DOMAIN points : points[i].date < target}
    IN  IF points = <<>> THEN None
        ELSE IF before = {} THEN points[1].value
        ELSE points[CHOOSE i \in before : \A j \in before : j <= i].value

\* _value_at_or_before: None without points; else the value of the first point
\* met from the end that is dated at or before the target, else the first point's
value_at_or_before(points, target) ==
    LET at_or_before == {i \in DOMAIN points : points[i].date <= target}
    IN  IF points = <<>> THEN None
        ELSE IF at_or_before = {} THEN points[1].value
        ELSE points[CHOOSE i \in at_or_before : \A j \in at_or_before : j <= i].value

\* a percentage change kept as the fraction num / den
PctChange(last_v, prev) ==
    IF prev # 0 THEN [num |-> (last_v - prev) * 100, den |-> prev] ELSE None

MinPoints == 2

\* _summarize_timeseries of a series that has at least two points
summarize_timeseries(points) ==
    LET last == Last(points)
        prev_1d == value_at_or_before(points, last.date - 1)
        prev_1w == value_at_or_before(points, last.date - 7)
        prev_1m == value_at_or_before(points, last.date - 30)
    IN  [asof |-> last.date, value |-> last.value,
         change_1d |-> last.value - prev_1d,
         change_1w |-> last.value - prev_1w,
         change_1m |-> last.value - prev_1m,
         pct_change_1d |-> PctChange(last.value, prev_1d),
         pct_change_1w |-> PctChange(last.value, prev_1w),
         pct_change_1m |-> PctChange(last.value, prev_1m)]

MesoValueBpsInclusive(v) == IF v <= 50 THEN v * 100 ELSE v

\* value_bps of the HY_SPREAD entry
MesoValueBps(v) == IF v < 50 THEN v * 100 ELSE v

MesoChangeBps(ch, v) == IF v < 50 THEN ch * 100 ELSE ch

DailyKeys ==
    {"VIX", "HY_SPREAD", "YIELD_CURVE_10Y2Y", "TREASURY_10Y", "DOLLAR_INDEX",
     "FINANCIAL_STRESS_INDEX", "NFCI", "GOLD"}

meso_daily_of(macro_snapshot) ==
    LET ts == Get(macro_snapshot, "timeseries", EmptyDict)
        kept == {key \in DailyKeys \cap DOMAIN ts : Len(ts[key]) >= MinPoints}
    IN  [key \in kept |->
            LET item == summarize_timeseries(ts[key])
            IN  IF key = "HY_SPREAD"
                THEN Merge(item,
                        [value_bps |-> MesoValueBps(item.value),
                         change_1d_bps |-> MesoChangeBps(item.change_1d, item.value),
                         change_1w_bps |-> MesoChangeBps(item.change_1w, item.value),
                         change_1m_bps |-> MesoChangeBps(item.change_1m, item.value)])
                ELSE item]

---------------------------------------------------------------------------
(* What the data providers answer, and the fetcher's actions *)

FetcherInit ==
    /\ fred_available \in BOOLEAN
    /\ yfinance_available \in BOOLEAN
    /\ cache = EmptyDict
    /\ series_info_cache = EmptyDict
    /\ snapshot = EmptyDict
    /\ snapshot_status = "none"
    /\ meso_daily = EmptyDict

\* what the providers answer; the dollar index and the two stress indices
\* fail unless WithIndicators says otherwise
Upstream(t10, yc, hy, cpi, vix, gold, info_ok) ==
    [fred |-> [TREASURY_10Y |-> t10, YIELD_CURVE_10Y2Y |-> yc, HY_SPREAD |-> hy,
               DOLLAR_INDEX |-> FetchError, FINANCIAL_STRESS_INDEX |-> FetchError,
               NFCI |-> FetchError],
     cpi |-> cpi, vix |-> vix, gold |-> gold, info_ok |-> info_ok]

WithIndicators(upstream, dx, fsi, nfci) ==
    [upstream EXCEPT !.fred.DOLLAR_INDEX = dx,
                     !.fred.FINANCIAL_STRESS_INDEX = fsi,
                     !.fred.NFCI = nfci]

TreasuryFrame == Frame(<<4, 4>>, 1)

CurveFrame == Frame(<<4, 5>>, 1)

SpreadFrame(v) == Frame(<<v + 1, v>>, 1)

\* fourteen monthly values whose year-on-year change falls
CpiFrame == Frame(<<100, 100, 100, 100, 100, 100, 100, 100, 100, 100, 100, 100,
                    104, 103>>, 20)

VixQuote == Frame(<<30, 35>>, 1)

GoldQuotes == <<Frame(<<2000, 2010>>, 1), Frame(<<1990>>, 1)>>

\* raw high-yield spreads on both sides of the 50 boundary
RawSpreads == {3, 49, 50, 550}

SpreadUpstreams ==
    {Upstream(TreasuryFrame, CurveFrame, SpreadFrame(v), CpiFrame, VixQuote,
              GoldQuotes, TRUE) : v \in RawSpreads}
    \cup {Upstream(TreasuryFrame, CurveFrame, Frame(<<3, 49, NaN>>, 1), CpiFrame,
                   VixQuote, GoldQuotes, TRUE)}

\* a history of n values: the first n - 1 climb from low, the last is last
LongFrame(n, low, last) ==
    Frame([i \in 1..n |-> IF i = n THEN last ELSE low + i], 1)

\* two years of values for the curve, the spread and the VIX; their latest
\* values sit at the 80th, 20th and 80th percentile
LongUpstream ==
    Upstream(TreasuryFrame, LongFrame(20, 0 - 10, 5), LongFrame(20, 0, 3), CpiFrame,
             LongFrame(25, 10, 29), GoldQuotes, TRUE)

\* the six indicators in turn.  The histories that enter a mean hold two
\* years of values or none (percentiles 80 for the curve, 20 for the spread,
\* 20 or 80 for the stress indices), so that every mean is a whole number:
\* all six with a history; a VIX of exactly 20 closes; a stress index that
\* fails; a VIX of two closes, the last six days old, beside a short dollar
\* index; an NFCI whose last value is missing; none of the six
IndicatorUpstreams ==
    {WithIndicators(LongUpstream, LongFrame(20, 0, 15), LongFrame(20, 0, 3),
                    LongFrame(20, 0, 15)),
     Upstream(TreasuryFrame, LongFrame(20, 0 - 10, 5), FetchError, CpiFrame,
              LongFrame(20, 10, 25), GoldQuotes, TRUE),
     WithIndicators(LongUpstream, LongFrame(20, 0, 15), FetchError,
                    LongFrame(20, 0, 3)),
     WithIndicators(Upstream(TreasuryFrame, LongFrame(20, 0 - 10, 5),
                             LongFrame(20, 0, 3), CpiFrame, Frame(<<30, 35>>, 6),
                             GoldQuotes, TRUE),
                    Frame(<<120, 121>>, 1), FetchError, FetchError),
     WithIndicators(LongUpstream, FetchError, FetchError,
                    Frame(LongFrame(20, 0, 3).values \o <<NaN>>, 1)),
     LongUpstream,
     Upstream(FetchError, FetchError, FetchError, FetchError,
              Frame(<<NaN>>, 1), <<EmptyFrame, Frame(<<1990>>, 9)>>, FALSE)}

Upstreams ==
    SpreadUpstreams
    \cup {LongUpstream}
    \cup {Upstream(TreasuryFrame, CurveFrame, hy, CpiFrame, VixQuote, GoldQuotes,
                   TRUE) :
            hy \in {FetchError, EmptyFrame, Frame(<<NaN, NaN>>, 1)}}
    \cup {Upstream(TreasuryFrame, yc, SpreadFrame(3), CpiFrame, VixQuote,
                   GoldQuotes, TRUE) :
            yc \in {FetchError, Frame(<<NaN>>, 1), Frame(<<0 - 2, 0 - 2>>, 1),
                    Frame(<<5, 5>>, 30)}}
    \cup {Upstream(TreasuryFrame, CurveFrame, SpreadFrame(3), FetchError,
                   VixQuote, GoldQuotes, FALSE),
          Upstream(TreasuryFrame, CurveFrame, SpreadFrame(3), CpiFrame,
                   FetchError, <<FetchError, Frame(<<1990>>, 1)>>, TRUE),
          Upstream(FetchError, FetchError, FetchError, FetchError,
                   Frame(<<NaN>>, 1), <<EmptyFrame, Frame(<<1990>>, 9)>>, FALSE)}

\* the keys and the provider's answers of fetch called on its own
FetchIds == {"DGS10", "T10Y2Y"}

FetchWindows == {"2y", "5y"}

FetchOutcomes == {FetchError, EmptyFrame, Frame(<<4, 4>>, 1), Frame(<<4, 5>>, 1)}

FetchCalls ==
    {[key |-> <<id, window>>, outcome |-> outcome] :
        id \in FetchIds, window \in FetchWindows, outcome \in FetchOutcomes}

\* macro_fetcher.fetch(series_id, start=..., end=...)
FetchSeries(args) ==
    /\ \E out \in {fetch(cache, fred_available, args.key[1], args.key[2],
                          args.outcome)} :
           /\ cache' = out.cache
           /\ called' = [op |-> "fetch", args |-> args, asked |-> out.asked]
           /\ returned' = out.df
    /\ UNCHANGED <<fred_available, yfinance_available, series_info_cache, snapshot,
                   snapshot_status, meso_daily>>
    /\ UNCHANGED <<regimeVars, scenarioVars, scoreVars, cycleVars>>

\* what get_macro_snapshot does to the fetcher
TakeSnapshot(upstream) ==
    /\ \E out \in {MacroSnapshot(cache, series_info_cache, fred_available,
                                 yfinance_available, upstream)} :
           /\ cache' = out.cache
           /\ series_info_cache' = out.info_cache
           /\ snapshot' = out.snapshot
           /\ snapshot_status' = IF out.raised THEN "raised" ELSE "returned"
    /\ UNCHANGED <<fred_available, yfinance_available, meso_daily>>

\* macro_fetcher.get_macro_snapshot()
GetMacroSnapshot(upstream) ==
    /\ TakeSnapshot(upstream)
    /\ UNCHANGED <<regimeVars, scenarioVars, scoreVars, cycleVars, callVars>>

\* get_macro_snapshot() with the providers' answers of the call kept
CallMacroSnapshot(upstream) ==
    /\ TakeSnapshot(upstream)
    /\ called' = [op |-> "get_macro_snapshot", args |-> upstream]
    /\ returned' = snapshot_status'
    /\ UNCHANGED <<regimeVars, scenarioVars, scoreVars, cycleVars>>

\* what the providers answer when the detector asks for a snapshot itself
DetectUpstreams ==
    {Upstream(TreasuryFrame, CurveFrame, SpreadFrame(3), CpiFrame, VixQuote,
              GoldQuotes, TRUE),
     Upstream(TreasuryFrame, Frame(<<NaN>>, 1), SpreadFrame(3), CpiFrame,
              VixQuote, GoldQuotes, TRUE)}

\* RegimeDetector.detect(None) with a macro fetcher: the flat of the snapshot
\* it fetches, or {} when get_macro_snapshot raises
DetectFromFetcher(upstream) ==
    /\ \E out \in {MacroSnapshot(cache, series_info_cache, fred_available,
                                 yfinance_available, upstream)} :
           /\ cache' = out.cache
           /\ series_info_cache' = out.info_cache
           /\ snapshot' = out.snapshot
           /\ snapshot_status' = IF out.raised THEN "raised" ELSE "returned"
           /\ DetectOn(Get(out.snapshot, "flat", EmptyDict))
    /\ UNCHANGED <<fred_available, yfinance_available, meso_daily>>
    /\ UNCHANGED <<scenarioVars, scoreVars, cycleVars, callVars>>

\* meso_analyzer.analyze(macro_snapshot) on the snapshot last returned
MesoAnalyze ==
    /\ snapshot_status = "returned"
    /\ meso_daily' = meso_daily_of(snapshot)
    /\ UNCHANGED <<fred_available, yfinance_available, cache, series_info_cache,
                   snapshot, snapshot_status>>
    /\ UNCHANGED <<regimeVars, scenarioVars, scoreVars, cycleVars, callVars>>

---------------------------------------------------------------------------
(* main.py: PortfolioManagerSystem.run_cycle, and the signature of
   output/generator.py: OutputGenerator.generate *)

\* the parameters generate accepts
GenerateParameters ==
    {"scores", "prices", "regime", "regime_conf", "scenario", "scenario_prob",
     "min_score"}

\* the keyword arguments run_cycle passes to generate
RunCycleKeywords ==
    {"scores", "prices", "regime", "regime_conf", "scenario", "scenario_prob",
     "macro_snapshot", "min_score"}

\* a call with a keyword the callee does not accept raises TypeError
CallRaises(keywords, parameters) == ~(keywords \subseteq parameters)

CycleInit == cycle_result = "none"

\* the body of run_cycle on the market data fetch_market_data returned and on
\* what the macro providers answer
RunCycleOn(data, upstream) ==
    IF IsEmpty(data)
    THEN /\ cycle_result' = "No data"
         /\ UNCHANGED <<regimeVars, scenarioVars, scoreVars, fetcherVars>>
    ELSE \E out \in {MacroSnapshot(cache, series_info_cache, fred_available,
                                   yfinance_available, upstream)} :
         LET macro_snapshot == out.snapshot
             macro_flat == Get(macro_snapshot, "flat", EmptyDict)
             macro_features == Get(macro_snapshot, "features", EmptyDict)
             features == FeatureCalculateBatchOf(data, macro_features)
         IN  /\ cache' = out.cache
             /\ series_info_cache' = out.info_cache
             /\ snapshot' = out.snapshot
             /\ snapshot_status' = IF out.raised THEN "raised" ELSE "returned"
             /\ UNCHANGED <<fred_available, yfinance_available>>
             /\ DetectOn(macro_flat)
             /\ DetermineOn(macro_flat)
             /\ meso_daily' = meso_daily_of(macro_snapshot)
             /\ score_regime' = current_state'.regime
             /\ weights' = get_adjusted_weights(current_state'.regime)
             /\ market_data' = data
             /\ ScoreBatchOn(features, get_adjusted_weights(current_state'.regime))
             /\ cycle_result' =
                   IF escaped' \/ CallRaises(RunCycleKeywords, GenerateParameters)
                   THEN "raised"
                   ELSE "text"

\* run_cycle()
RunCycle(data, upstream) ==
    /\ RunCycleOn(data, upstream)
    /\ UNCHANGED callVars

\* minutes between two cycles of run_continuous
IntervalMinutes == 2

\* cycles of run_continuous per behaviour
MaxCycles == 4

\* run_continuous: self.run_cycle() at once, then again whenever the interval
\* has passed; an exception of run_cycle is caught nowhere (the only handler
\* is for ImportError) and ends the loop
ContinuousCycle(data, upstream) ==
    /\ \/ called.op = "none"
       \/ /\ called.op = "run_continuous"
          /\ called.running
          /\ called.waited = IntervalMinutes
          /\ called.cycles < MaxCycles
    /\ RunCycleOn(data, upstream)
    /\ called' = [op |-> "run_continuous",
                  cycles |-> IF called.op = "none" THEN 1 ELSE called.cycles + 1,
                  waited |-> 0,
                  running |-> cycle_result' # "raised"]
    /\ UNCHANGED returned

\* time.sleep between two cycles, a minute at a time
Sleep ==
    /\ called.op = "run_continuous"
    /\ called.running
    /\ called.waited < IntervalMinutes
    /\ called' = [called EXCEPT !.waited = @ + 1]
    /\ UNCHANGED <<regimeVars, scenarioVars, scoreVars, fetcherVars, cycleVars,
                   returned>>

\* what fetch_market_data returns: the symbols that have bars
CycleData ==
    { EmptyDict,
      [s \in {"AAA"} |-> StrongSeries(300)],
      [s \in SymbolSet |-> IF s = "AAA" THEN StrongSeries(300) ELSE StrongSeries(40)] }

CycleUpstreams ==
    { Upstream(TreasuryFrame, CurveFrame, SpreadFrame(v), CpiFrame, VixQuote,
               GoldQuotes, TRUE) : v \in {3, 550} }
    \cup { Upstream(TreasuryFrame, Frame(<<NaN>>, 1), SpreadFrame(3), CpiFrame,
                    VixQuote, GoldQuotes, TRUE),
           Upstream(FetchError, FetchError, FetchError, FetchError,
                    Frame(<<NaN>>, 1), <<EmptyFrame, Frame(<<1990>>, 9)>>, FALSE) }

---------------------------------------------------------------------------
(* The helpers called on their own *)

CallInit ==
    /\ called = [op |-> "none"]
    /\ returned = None

\* op is called with args and returns result; nothing else changes. The
\* helpers keep no state, so one call per behaviour shows all they do.
Call(op, args, result) ==
    /\ called.op = "none"
    /\ called' = [op |-> op, args |-> args]
    /\ returned' = result
    /\ UNCHANGED <<regimeVars, scenarioVars, scoreVars, fetcherVars, cycleVars>>

MaxPoints == 3

PointDates == 1..3

PointValues == {7, 8}

\* what _parse_timeseries returns: points sorted by date
SortedPoints ==
    {points \in UNION {[1..n -> [date : PointDates, value : PointValues]] :
                          n \in 0..MaxPoints} :
        \A i \in 1..(Len(points) - 1) : points[i].date <= points[i + 1].date}

TargetDates == 0..4

CallValueAtOrBefore(points, target) ==
    Call("value_at_or_before", [points |-> points, target |-> target],
         value_at_or_before(points, target))

MaxSamples == 21

NanCounts == {0, 1, 25}

Repeat(v, n) == [i \in 1..n |-> v]

Ramp(n) == [i \in 1..n |-> i]

\* a value column: missing entries before or after n samples that are all
\* equal or all different
HistoryInputs ==
    UNION {{Repeat(NaN, m) \o Ramp(n), Ramp(n) \o Repeat(NaN, m),
            Repeat(NaN, m) \o Repeat(7, n)} :
              n \in 0..MaxSamples, m \in NanCounts}

LatestInputs == {0, 7, 19}

CallSeriesPercentile(s, value) ==
    Call("series_percentile", [s |-> s, value |-> value], series_percentile(s, value))

CallSeriesZscore(s, value) ==
    Call("series_zscore", [s |-> s, value |-> value], series_zscore(s, value))

---------------------------------------------------------------------------
(* Specifications *)

Init ==
    RegimeInit /\ ScenarioInit /\ ScoreInit /\ FetcherInit /\ CycleInit /\ CallInit

\* both providers reachable at construction
InitOnline == Init /\ fred_available /\ yfinance_available

NextRegime ==
    \/ \E m \in MacroInputs : Detect(m)
    \/ \E upstream \in DetectUpstreams : DetectFromFetcher(upstream)

SpecRegime == Init /\ [][NextRegime]_vars

NextScenario == \E m \in ScenarioInputs : Determine(m)

SpecScenario == InitOnline /\ [][NextScenario]_vars

NextScore ==
    \/ \E regime \in Regimes : set_regime(regime)
    \/ \E data \in MarketDataInputs, macro_data \in MacroFeatureInputs :
           FeaturesThenScores(data, macro_data)
    \/ \E macros \in [SymbolSet -> SuppliedMacros] :
           ScoreCalculateBatch([s \in SymbolSet |-> SuppliedFeatureSet(s, macros[s])])

SpecScore == InitOnline /\ [][NextScore]_vars

NextSnapshot ==
    \/ \E upstream \in Upstreams : GetMacroSnapshot(upstream)
    \/ MesoAnalyze

SpecSnapshot == Init /\ [][NextSnapshot]_vars

\* the macro dicts that carry a raw high-yield spread
SpreadMacros == {m \in MacroInputs : "HY_SPREAD" \in DOMAIN m}

NextSpread ==
    \/ \E upstream \in SpreadUpstreams : GetMacroSnapshot(upstream)
    \/ MesoAnalyze
    \/ \E m \in SpreadMacros : Detect(m)

SpecSpread == Init /\ [][NextSpread]_vars

NextCycle == \E data \in CycleData, upstream \in CycleUpstreams : RunCycle(data, upstream)

SpecCycle == Init /\ [][NextCycle]_vars

\* a feature group holding one indicator, or nothing when it is absent (None)
Entry(key, v) == IF v = None THEN EmptyDict ELSE (key :> v)

\* values on both sides of the thresholds 40 / 60 and 25 / 75, and absence
DirectionValues == {None, 39, 40, 60, 61}

AlignmentValues == {None, 24, 25, 75, 76}

\* a FeatureSet holding the four indicators the direction reads
DirectionFeatures(td, ma, rsi, sb) ==
    [symbol |-> "AAA",
     trend |-> Entry("trend_direction", td) @@ Entry("ma_alignment", ma),
     momentum |-> Entry("rsi_14", rsi),
     volatility |-> EmptyDict,
     fractal |-> Entry("structure_bias", sb),
     flow |-> EmptyDict,
     macro |-> EmptyDict]

DirectionInputs ==
    {DirectionFeatures(td, ma, rsi, sb) :
        td \in DirectionValues, ma \in AlignmentValues, rsi \in DirectionValues,
        sb \in DirectionValues}

CallCalculateDirection(features) ==
    Call("calculate_direction", [features |-> features],
         calculate_direction(features))

\* the labels get_adjusted_weights is called with: the five regimes and one
\* that is no regime
WeightLabels == Regimes \cup {"UNKNOWN"}

CallGetAdjustedWeights(regime) ==
    Call("get_adjusted_weights", [regime |-> regime],
         [weights |-> get_adjusted_weights(regime),
          SCORE_WEIGHTS |-> TableAfter(SCORE_WEIGHTS, regime)])

\* The feature groups. steps lists the statements of the try body of
\* calculate in order, each as the set of keys it assigns (none for the
\* statements that only read columns or build series); defaults is the map of
\* the except branch.
TrendFeatures ==
    [steps |-> <<{}, {}, {"price_vs_sma20"}, {"price_vs_sma50"}, {"price_vs_sma200"},
                 {"ma_alignment"}, {"adx"}, {"trend_direction"}, {"lr_slope"}, {},
                 {"donchian_position"}>>,
     defaults |-> [price_vs_sma20 |-> 50, price_vs_sma50 |-> 50,
                   price_vs_sma200 |-> 50, ma_alignment |-> 50, adx |-> 25,
                   trend_direction |-> 50, lr_slope |-> 50,
                   donchian_position |-> 50]]

MomentumFeatures ==
    [steps |-> <<{}, {"rsi_14"}, {"rsi_7"}, {}, {"macd_histogram"}, {"macd_signal"},
                 {}, {"stoch_k"}, {"stoch_d"}, {"roc_10"}, {"roc_20"},
                 {"williams_r"}, {"cci"}, {"momentum_composite"}>>,
     defaults |-> [rsi_14 |-> 50, rsi_7 |-> 50, macd_histogram |-> 50,
                   macd_signal |-> 50, stoch_k |-> 50, stoch_d |-> 50,
                   roc_10 |-> 50, roc_20 |-> 50, williams_r |-> 50, cci |-> 50,
                   momentum_composite |-> 50]]

VolatilityFeatures ==
    [steps |-> <<{}, {}, {"atr"}, {"atr_pct"}, {}, {"atr_percentile"}, {},
                 {"bb_position"}, {"bb_width"}, {"hist_vol_20"}, {"hist_vol_60"},
                 {"vol_ratio"}, {"keltner_position"}, {"atr_expansion"}>>,
     defaults |-> [atr |-> 0, atr_pct |-> 0, atr_percentile |-> 50,
                   bb_position |-> 50, bb_width |-> 50, hist_vol_20 |-> 0,
                   hist_vol_60 |-> 0, vol_ratio |-> 50, keltner_position |-> 50,
                   atr_expansion |-> 50]]

\* hurst_exponent and fractal_dimension in hundredths (0.5 and 1.5)
HurstFeatures ==
    [steps |-> <<{}, {}, {"hurst_exponent"}, {"hurst_normalized"}, {"market_type"},
                 {"fractal_dimension"}, {"fractal_dimension_normalized"},
                 {"rs_confidence"}>>,
     defaults |-> [hurst_exponent |-> 50, hurst_normalized |-> 50,
                   market_type |-> 50, fractal_dimension |-> 150,
                   fractal_dimension_normalized |-> 50, rs_confidence |-> 50]]

SMCFeatures ==
    [steps |-> <<{}, {}, {}, {"order_block_bull"}, {"order_block_bear"},
                 {"ob_proximity"}, {}, {"fvg_up"}, {"fvg_down"}, {"fvg_bias"},
                 {"bos_bullish"}, {"bos_bearish"}, {"structure_bias"},
                 {"liquidity_above"}, {"liquidity_below"}, {"smc_score"}>>,
     defaults |-> [order_block_bull |-> 50, order_block_bear |-> 50,
                   ob_proximity |-> 50, fvg_up |-> 50, fvg_down |-> 50,
                   fvg_bias |-> 50, bos_bullish |-> 50, bos_bearish |-> 50,
                   structure_bias |-> 50, liquidity_above |-> 50,
                   liquidity_below |-> 50, smc_score |-> 50]]

FeatureGroups ==
    [trend |-> TrendFeatures, momentum |-> MomentumFeatures,
     volatility |-> VolatilityFeatures, hurst |-> HurstFeatures,
     smc |-> SMCFeatures]

\* the keys the statements before the failing one (all of them when
\* fails_at = 0) have assigned
AssignedBefore(steps, fails_at) ==
    UNION {steps[i] : i \in 1..(IF fails_at = 0 THEN Len(steps) ELSE fails_at - 1)}

GroupCalculateKeepsPartial(group, fails_at, value) ==
    [k \in AssignedBefore(group.steps, fails_at) |-> value]

\* calculate(ohlcv) of a group: features = {}; try: the statements in order;
\* except Exception: features = the defaults; return features. Statement
\* fails_at raises (none when 0); value is what the helpers compute.
GroupCalculate(group, fails_at, value) ==
    IF fails_at = 0
    THEN [k \in AssignedBefore(group.steps, fails_at) |-> value]
    ELSE group.defaults

GroupNames == DOMAIN FeatureGroups

GroupValues == {50, 73}

GroupInputs ==
    UNION {{[group |-> g, fails_at |-> i, value |-> v] :
               i \in 0..Len(FeatureGroups[g].steps), v \in GroupValues} :
           g \in GroupNames}

CallGroupCalculate(args) ==
    Call("calculate", args,
         GroupCalculate(FeatureGroups[args.group], args.fails_at, args.value))

\* detect(macro_data) with what it returns
CallDetect(macro_data) ==
    /\ DetectOn(macro_data)
    /\ called' = [op |-> "detect", args |-> macro_data]
    /\ returned' = current_state'
    /\ UNCHANGED <<scenarioVars, scoreVars, fetcherVars, cycleVars>>

\* determine(macro_data) with what it returns
CallDetermine(macro_data) ==
    /\ DetermineOn(macro_data)
    /\ called' = [op |-> "determine", args |-> macro_data]
    /\ returned' = current'
    /\ UNCHANGED <<regimeVars, scoreVars, fetcherVars, cycleVars>>

DetectCalls ==
    { EmptyDict,
      [VIX |-> NonNumeric, yield_curve |-> 5],
      [VIX |-> 12, yield_curve |-> NonNumeric],
      [VIX |-> 12, yield_curve |-> 5],
      [VIX |-> 40, yield_curve |-> 0 - 2] }

DetermineCalls ==
    { EmptyDict,
      [inflation_trend |-> "FLAT", gdp_growth |-> NonNumeric, core_inflation |-> 20],
      [inflation_trend |-> "FLAT", gdp_growth |-> 5, core_inflation |-> 20,
       credit_spread |-> NonNumeric],
      [inflation_trend |-> "FALLING", gdp_growth |-> 30, core_inflation |-> 20],
      [inflation_trend |-> "FLAT", gdp_growth |-> 5, core_inflation |-> 20,
       credit_spread |-> 600] }

NextClassify ==
    \/ \E m \in DetectCalls : CallDetect(m)
    \/ \E m \in DetermineCalls : CallDetermine(m)

SpecClassify == Init /\ [][NextClassify]_vars

\* snapshots in which the metadata lookups, the spread, the curve, the
\* treasury yield, the dollar index or a stress index fail or answer
MetadataUpstreams ==
    {LongUpstream,
     [LongUpstream EXCEPT !.info_ok = FALSE],
     [LongUpstream EXCEPT !.fred.HY_SPREAD = FetchError],
     [LongUpstream EXCEPT !.fred.HY_SPREAD = FetchError, !.info_ok = FALSE],
     [LongUpstream EXCEPT !.fred.YIELD_CURVE_10Y2Y = EmptyFrame],
     [LongUpstream EXCEPT !.fred.TREASURY_10Y = FetchError],
     [LongUpstream EXCEPT !.fred.FINANCIAL_STRESS_INDEX = LongFrame(20, 0, 3)],
     [LongUpstream EXCEPT !.fred.NFCI = LongFrame(20, 0, 15), !.info_ok = FALSE],
     [LongUpstream EXCEPT !.fred.TREASURY_10Y = EmptyFrame, !.info_ok = FALSE],
     [LongUpstream EXCEPT !.fred.DOLLAR_INDEX = LongFrame(20, 100, 105),
                          !.info_ok = FALSE]}

NextMetadata == \E upstream \in MetadataUpstreams : CallMacroSnapshot(upstream)

SpecMetadata == Init /\ [][NextMetadata]_vars

NextContinuous ==
    \/ \E data \in CycleData, upstream \in CycleUpstreams :
           ContinuousCycle(data, upstream)
    \/ Sleep

SpecContinuous == Init /\ [][NextContinuous]_vars

\* OutputGenerator._create_signal. Prices are in thousandths: atr_pct is 20
\* thousandths, 30 in STRESS; rounding to five places is left out.
create_signal(score, price, regime) ==
    LET direction == IF score.direction > 0 THEN "LONG" ELSE "SHORT"
        atr_pct == IF regime = "STRESS" THEN 30 ELSE 20
    IN  IF direction = "LONG"
        THEN [direction |-> direction, score |-> score.total,
              entry_price |-> price * 1000,
              stop_loss |-> price * (1000 - atr_pct * 2),
              take_profit_1 |-> price * (1000 + atr_pct * 3),
              take_profit_2 |-> price * (1000 + atr_pct * 5)]
        ELSE [direction |-> direction, score |-> score.total,
              entry_price |-> price * 1000,
              stop_loss |-> price * (1000 + atr_pct * 2),
              take_profit_1 |-> price * (1000 - atr_pct * 3),
              take_profit_2 |-> price * (1000 - atr_pct * 5)]

\* the signals of OutputGenerator.generate by symbol: a signal for every
\* score of min_score or more whose symbol has a price above 0 (the cut to
\* the twenty best does not bite for the symbols of the model)
generate(asset_scores, prices, regime, min_score) ==
    [symbol \in {s \in DOMAIN asset_scores :
                    /\ asset_scores[s].total >= min_score
                    /\ Get(prices, s, 0) > 0} |->
        create_signal(asset_scores[symbol], prices[symbol], regime)]

\* the scores and prices generate is called with; the direction is in twelfths
SignalScores ==
    {[total |-> t, direction |-> d] : t \in {50, 70}, d \in {0 - 12, 0, 12}}

SignalPrices == [{"AAA"} -> {0, 100}] \cup [SymbolSet -> {0, 100}]

GenerateInputs ==
    {[scores |-> sc, prices |-> pr, regime |-> regime] :
        sc \in [SymbolSet -> SignalScores], pr \in SignalPrices,
        regime \in {"RISK_ON", "STRESS"}}

CallGenerate(args) ==
    Call("generate", args, generate(args.scores, args.prices, args.regime, 55))

\* the window of rsi_14
RsiPeriod == 14

\* the sum over the last period entries of delta.where(delta > 0, 0) (sign 1)
\* or of -delta.where(delta < 0, 0) (sign -1); the first delta is NaN and
\* counts as 0
WindowSum(close, period, sign) ==
    LET window == {i \in (Len(close) - period + 1)..Len(close) : i >= 2}
        part == [i \in window |-> Max(0, sign * (close[i] - close[i - 1]))]
    IN  SumOver(part, window)

\* MomentumFeatures._calculate_rsi on closes in hundredths:
\* rs = gain / loss.replace(0, 1) and rsi = 100 - 100 / (1 + rs), which is
\* 100 * gain / (gain + loss), with 1 for a loss of 0; 50 when the rolling
\* mean is NaN. A whole number for the closes of the model.
calculate_rsi(close, period) ==
    IF Len(close) < period THEN 50
    ELSE IF WindowSum(close, period, 0 - 1) = 0
    THEN (100 * WindowSum(close, period, 1))
         \div (WindowSum(close, period, 1) + period * 100)
    ELSE (100 * WindowSum(close, period, 1))
         \div (WindowSum(close, period, 1) + WindowSum(close, period, 0 - 1))

\* closes that rise by step every bar, closes that rise by 3.00 and fall by
\* 1.00 in turn, closes that stay
RisingCloses(step, n) == [i \in 1..n |-> 10000 + step * i]

ZigzagCloses(n) == [i \in 1..n |-> 10000 + 100 * i + 200 * (i % 2)]

CloseInputs ==
    {RisingCloses(step, n) : step \in {0, 25, 100, 300}, n \in {10, 15, 16}}
    \cup {ZigzagCloses(n) : n \in {15, 16}}

CallCalculateRsi(close) ==
    Call("calculate_rsi", [close |-> close],
         [rsi |-> calculate_rsi(close, RsiPeriod),
          vote |-> Vote(calculate_rsi(close, RsiPeriod), 40, 60)])

NextFetch == \E args \in FetchCalls : FetchSeries(args)

SpecFetch == Init /\ [][NextFetch]_vars

NextIndicators ==
    \/ \E upstream \in IndicatorUpstreams : GetMacroSnapshot(upstream)
    \/ MesoAnalyze

SpecIndicators == Init /\ [][NextIndicators]_vars

NextCalls ==
    \/ \E points \in SortedPoints, target \in TargetDates :
          CallValueAtOrBefore(points, target)
    \/ \E s \in HistoryInputs, value \in LatestInputs : CallSeriesPercentile(s, value)
    \/ \E s \in HistoryInputs, value \in LatestInputs : CallSeriesZscore(s, value)
    \/ \E features \in DirectionInputs : CallCalculateDirection(features)
    \/ \E regime \in WeightLabels : CallGetAdjustedWeights(regime)
    \/ \E args \in GroupInputs : CallGroupCalculate(args)
    \/ \E args \in GenerateInputs : CallGenerate(args)
    \/ \E close \in CloseInputs : CallCalculateRsi(close)

SpecCalls == Init /\ [][NextCalls]_vars

---------------------------------------------------------------------------
(* Claims *)

\* number of trailing equal entries of a sequence
RECURSIVE RunLength(_)
RunLength(s) ==
    IF Len(s) = 0 THEN 0
    ELSE IF Len(s) = 1 THEN 1
    ELSE IF s[Len(s)] = s[Len(s) - 1]
         THEN 1 + RunLength(SubSeq(s, 1, Len(s) - 1))
         ELSE 1

\* a step changes duration_days only by +1 under an unchanged label (and only
\* in a scored call), or to 1 with previous = the old label under a new label
DurationStep ==
    /\ current_state'.regime # current_state.regime
         => /\ current_state'.duration_days = 1
            /\ current_state'.previous = current_state.regime
    /\ current_state'.regime = current_state.regime
         => /\ current_state'.previous = current_state.previous
            /\ \/ current_state'.duration_days = current_state.duration_days
               \/ /\ current_state'.duration_days = current_state.duration_days + 1
                  /\ resolved' # resolved

\* C1: after N >= 1 consecutive scored detect calls resolving to one label,
\* duration_days = N; a call resolving to another label leaves duration_days = 1
\* and previous = the label held before; duration_days changes in no other way.
C1_DurationCountsRun ==
    /\ [](current_state.duration_days = RunLength(resolved))
    /\ [](resolved # <<>> => current_state.regime = resolved[Len(resolved)])
    /\ [][DurationStep]_vars

\* C1 witness: a label change followed by a second call on the new label
C1_Witness ==
    /\ Len(resolved) = 3
    /\ resolved[1] = "RISK_ON"
    /\ resolved[2] = "RISK_OFF"
    /\ resolved[3] = "RISK_OFF"
    /\ current_state.duration_days = 2
    /\ current_state.previous = "RISK_ON"

\* the macro mapping of the end-to-end scenario (yield_curve -0.2 in tenths)
C2_Macro == [VIX |-> 35, yield_curve |-> 0 - 2, credit_spread |-> 550]

\* C2: detect on VIX = 35, credit_spread = 550, yield_curve = -0.2 returns a
\* state whose regime is STRESS, not RISK_OFF.
C2_Vix35SpreadIsStress ==
    (macro_in = C2_Macro /\ resolved # <<>>) => current_state.regime = "STRESS"

NoAdjacentRepeat(seq) == \A i \in 1..(Len(seq) - 1) : seq[i] # seq[i + 1]

\* a step that changes the sequence appends the new winner, which differs from
\* the last entry, and at the cap drops the oldest entry
SequenceStep ==
    sequence' # sequence =>
        /\ sequence = <<>> \/ current'.scenario # sequence[Len(sequence)]
        /\ IF Len(sequence) < SequenceCap
           THEN sequence' = Append(sequence, current'.scenario)
           ELSE /\ Len(sequence') = SequenceCap
                /\ \A i \in 1..(SequenceCap - 1) : sequence'[i] = sequence[i + 1]
                /\ sequence'[SequenceCap] = current'.scenario

\* C4: the engine's sequence and the returned state's sequence hold at most 10
\* entries, no two adjacent entries are equal, an entry is appended only when
\* the winner differs from the last entry, and at the cap the oldest is dropped
\* (so the last entry is always the scenario last determined).
C4_SequenceCapped ==
    /\ [](Len(sequence) <= 10 /\ NoAdjacentRepeat(sequence))
    /\ [](Len(current.sequence) <= 10 /\ NoAdjacentRepeat(current.sequence))
    /\ [](sequence # <<>> => sequence[Len(sequence)] = current.scenario)
    /\ [][SequenceStep]_vars
    /\ [][current'.scenario = current.scenario /\ sequence # <<>> => sequence' = sequence]_vars

\* C4 witness: more entries were appended than the sequence holds
C4_Witness ==
    /\ appends > SequenceCap
    /\ Len(sequence) = SequenceCap
    /\ current.sequence = sequence

AllGroupsEmpty(features) ==
    /\ IsEmpty(features.trend)
    /\ IsEmpty(features.momentum)
    /\ IsEmpty(features.volatility)
    /\ IsEmpty(features.fractal)
    /\ IsEmpty(features.flow)
    /\ IsEmpty(features.macro)

ShortSeries == {s \in DOMAIN market_data : market_data[s].bars < 50}


\* C3 (as stated): a series of fewer than 50 bars gives a FeatureSet with six
\* empty groups, and its AssetScore has total = 0 and confidence LOW.
C3_ShortSeriesZeroScore ==
    \A s \in ShortSeries :
        /\ AllGroupsEmpty(features_dict[s])
        /\ ~escaped
        /\ s \in DOMAIN scores =>
              /\ scores[s].total.num = 0
              /\ scores[s].confidence = "LOW"

\* C3 (amended): a series of fewer than 50 bars gives a FeatureSet with six
\* empty groups, and its AssetScore is the neutral one: nine components at 50
\* and risk_reward at 60, total = 50 + 10 * weight(risk_reward), which lies
\* strictly between 50 and 55, direction 0, confidence LOW, nothing raised.
C3_ShortSeriesNeutralScore ==
    \A s \in ShortSeries :
        /\ AllGroupsEmpty(features_dict[s])
        /\ ~escaped
        /\ s \in DOMAIN scores =>
              /\ \A k \in ComponentNames \ {"risk_reward"} :
                     scores[s].components[k] = 50 * Scale
              /\ scores[s].components["risk_reward"] = 60 * Scale
              /\ scores[s].total.den = Scale * WeightSum(scored_weights)
              /\ scores[s].total.num =
                     Scale * (50 * WeightSum(scored_weights)
                              + 10 * scored_weights["risk_reward"])
              /\ scores[s].total.num > 50 * scores[s].total.den
              /\ scores[s].total.num < 55 * scores[s].total.den
              /\ scores[s].direction = 0
              /\ scores[s].confidence = "LOW"

\* C3 witness: a 40-bar series scored next to a series with enough bars
C3_Witness ==
    /\ "AAA" \in DOMAIN market_data
    /\ market_data["AAA"].bars = 40
    /\ market_data["BBB"].bars >= 50
    /\ "AAA" \in DOMAIN scores
    /\ scores["AAA"].confidence = "LOW"
    /\ scores["BBB"].confidence = "INSTITUTIONAL"

\* the label the documented thresholds give the returned total
LabelAgrees(score) ==
    LET num == score.total.num
        den == score.total.den
    IN  /\ score.confidence = "INSTITUTIONAL" <=> num >= 80 * den
        /\ score.confidence = "HIGH" <=> (num >= 70 * den /\ num < 80 * den)
        /\ score.confidence = "MODERATE" <=> (num >= 55 * den /\ num < 70 * den)
        /\ score.confidence = "LOW" <=> num < 55 * den

\* C5: every returned AssetScore has 0 <= total <= 100 and the confidence
\* label its returned total calls for (INSTITUTIONAL >= 80, HIGH in [70,80),
\* MODERATE in [55,70), LOW < 55), under every regime's weights, when the
\* weighted sum is clamped, and on the exception fallback.
C5_TotalInRangeLabelAgrees ==
    \A s \in DOMAIN scores :
        /\ scores[s].total.den > 0
        /\ scores[s].total.num >= 0
        /\ scores[s].total.num <= 100 * scores[s].total.den
        /\ LabelAgrees(scores[s])

\* C5 witness: one score exactly on the 80 boundary, labelled INSTITUTIONAL,
\* next to one below 55, labelled LOW
C5_Witness ==
    /\ ~IsEmpty(scores)
    /\ scores["AAA"].total.num = 80 * scores["AAA"].total.den
    /\ scores["AAA"].confidence = "INSTITUTIONAL"
    /\ scores["BBB"].total.num < 55 * scores["BBB"].total.den
    /\ scores["BBB"].confidence = "LOW"

\* the score a symbol gets from a batch holding it alone
ScoredAlone(s) ==
    BatchLoop(<<s>>, features_dict, scored_weights, EmptyDict).scores[s]

\* C9: in calculate_batch a symbol whose scoring raises gets the fallback
\* AssetScore (total 0, direction 0, LOW, no components, no top drivers), no
\* exception leaves the batch, and every other symbol gets the score it gets
\* when scored alone.
C9_BatchIsolatesFailure ==
    /\ ~escaped
    /\ ~IsEmpty(scores) =>
          /\ DOMAIN scores = DOMAIN features_dict
          /\ \A s \in DOMAIN features_dict :
                IF CalculateRaises(features_dict[s])
                THEN /\ scores[s].symbol = s
                     /\ scores[s].total.num = 0
                     /\ scores[s].direction = 0
                     /\ scores[s].confidence = "LOW"
                     /\ IsEmpty(scores[s].components)
                     /\ scores[s].top_drivers = <<>>
                ELSE /\ scores[s] = ScoredAlone(s)
                     /\ ~IsEmpty(scores[s].components)
                     /\ Len(scores[s].top_drivers) = TopN

\* C9 witness: the first symbol's scoring raised, the second was scored
C9_Witness ==
    /\ ~IsEmpty(scores)
    /\ CalculateRaises(features_dict["AAA"])
    /\ ~CalculateRaises(features_dict["BBB"])
    /\ scores["BBB"].confidence = "INSTITUTIONAL"

\* the keys every snapshot holds
SnapshotKeys ==
    {"quality", "domains", "series_meta", "raw_latest", "derived", "flat",
     "features", "timeseries", "missing"}

\* C6: get_macro_snapshot never raises and always returns a structure holding
\* quality (missing_count, missing, stale), domains, series_meta, raw_latest,
\* derived, flat, features, timeseries and missing, whatever the per-series
\* outcomes (fetch failure, empty history, all-NaN history, failed metadata
\* lookup, unavailable secondary price source).
C6_SnapshotNeverRaises ==
    /\ snapshot_status # "raised"
    /\ snapshot_status = "returned"
         => /\ SnapshotKeys \subseteq DOMAIN snapshot
            /\ {"missing_count", "missing", "stale"} \subseteq DOMAIN snapshot.quality

\* name is reported obtained: in raw_latest, with series_meta available
Obtained(name) ==
    /\ name \in DOMAIN snapshot.raw_latest
    /\ name \in DOMAIN snapshot.series_meta
    /\ snapshot.series_meta[name].available

\* name is reported missing: in the missing list, with series_meta unavailable
ReportedMissing(name) ==
    /\ \E i \in DOMAIN snapshot.missing : snapshot.missing[i] = name
    /\ name \in DOMAIN snapshot.series_meta
    /\ ~snapshot.series_meta[name].available

\* C7: after get_macro_snapshot every configured series name is in exactly one
\* of raw_latest (series_meta available) and missing (series_meta not
\* available), and quality.missing_count is the length of missing; also when
\* the primary provider as a whole is unavailable.
C7_EverySeriesAccounted ==
    snapshot_status = "returned"
      => /\ \A name \in SeriesSet :
               /\ Obtained(name) \/ ReportedMissing(name)
               /\ ~(name \in DOMAIN snapshot.raw_latest
                     /\ \E i \in DOMAIN snapshot.missing : snapshot.missing[i] = name)
         /\ snapshot.quality.missing_count = Len(snapshot.missing)

\* C8: run_cycle on non-empty market data always completes and returns the
\* output text; no exception propagates out of the cycle.
C8_CycleReturnsText ==
    cycle_result \notin {"none", "No data"} => cycle_result = "text"

\* the last scored detect call read a numeric HY_SPREAD and no credit_spread
FallbackTaken ==
    /\ resolved # <<>>
    /\ "HY_SPREAD" \in DOMAIN macro_in
    /\ "credit_spread" \notin DOMAIN macro_in
    /\ macro_in["HY_SPREAD"] # NonNumeric

SnapshotHasSpread ==
    /\ snapshot_status = "returned"
    /\ "HY_SPREAD" \in DOMAIN snapshot.raw_latest

\* C10: each site that converts the high-yield spread to basis points (flat
\* credit_spread and derived credit_spread of the snapshot, the regime
\* scorers' fallback from HY_SPREAD, meso's value_bps) maps a raw v < 50 to
\* v * 100 and a raw v >= 50, the boundary 50 included, to v; so the sites
\* agree on the same raw input.
C10_SpreadSitesAgree ==
    /\ SnapshotHasSpread
         => LET v == snapshot.raw_latest["HY_SPREAD"].value
            IN  /\ "credit_spread" \in DOMAIN snapshot.flat
                /\ "credit_spread" \in DOMAIN snapshot.derived
                /\ v < 50 => /\ snapshot.flat["credit_spread"] = v * 100
                              /\ snapshot.derived["credit_spread"] = v * 100
                /\ v >= 50 => /\ snapshot.flat["credit_spread"] = v
                               /\ snapshot.derived["credit_spread"] = v
    /\ "HY_SPREAD" \in DOMAIN meso_daily
         => LET v == meso_daily["HY_SPREAD"].value
            IN  /\ v < 50 => meso_daily["HY_SPREAD"].value_bps = v * 100
                /\ v >= 50 => meso_daily["HY_SPREAD"].value_bps = v
    /\ FallbackTaken
         => LET v == macro_in["HY_SPREAD"]
            IN  /\ v < 50 => cs_used = [risk_on |-> v * 100, risk_off |-> v * 100,
                                         stress |-> v * 100]
                /\ v >= 50 => cs_used = [risk_on |-> v, risk_off |-> v, stress |-> v]
    /\ (/\ SnapshotHasSpread
        /\ FallbackTaken
        /\ "HY_SPREAD" \in DOMAIN meso_daily
        /\ macro_in["HY_SPREAD"] = snapshot.raw_latest["HY_SPREAD"].value
        /\ meso_daily["HY_SPREAD"].value = snapshot.raw_latest["HY_SPREAD"].value)
         => /\ cs_used.risk_on = snapshot.flat["credit_spread"]
            /\ meso_daily["HY_SPREAD"].value_bps = snapshot.flat["credit_spread"]

\* C10 witness: the boundary value 50 has gone through the snapshot, the meso
\* analysis and the regime scorers, and came out as 50 at each
C10_Witness ==
    /\ SnapshotHasSpread
    /\ snapshot.raw_latest["HY_SPREAD"].value = 50
    /\ snapshot.flat["credit_spread"] = 50
    /\ "HY_SPREAD" \in DOMAIN meso_daily
    /\ meso_daily["HY_SPREAD"].value_bps = 50
    /\ FallbackTaken
    /\ macro_in["HY_SPREAD"] = 50
    /\ cs_used.stress = 50

\* C11: on points sorted by date, _value_at_or_before returns the value of a
\* latest point dated at or before the target; the first point's value when the
\* target precedes every point; None when there are no points.
C11_ValueAtOrBefore ==
    called.op = "value_at_or_before" =>
        LET points == called.args.points
            target == called.args.target
            eligible == {i \in DOMAIN points : points[i].date <= target}
        IN  /\ points = <<>> => returned = None
            /\ (points # <<>> /\ eligible = {}) => returned = points[1].value
            /\ eligible # {} =>
                  \E i \in eligible :
                      /\ returned = points[i].value
                      /\ \A j \in eligible : points[j].date <= points[i].date

\* C11 witness: three points, the target on the date of the second
C11_Witness ==
    /\ called.op = "value_at_or_before"
    /\ Len(called.args.points) = 3
    /\ called.args.points[1].date < called.args.points[2].date
    /\ called.args.points[2].date = called.args.target
    /\ called.args.points[3].date > called.args.target
    /\ called.args.points[1].value # called.args.points[2].value
    /\ returned = called.args.points[2].value

\* the entries of a column that are not missing
ValidSamples(s) == {i \in DOMAIN s : s[i] # NaN}

\* C12: on a history with 0 to 19 valid samples, whatever the number of
\* missing entries, _series_percentile returns 50 and _series_zscore returns 0;
\* with 20 or more valid samples that are all equal (standard deviation 0) the
\* z-score is 0.
C12_NeutralBelowTwentySamples ==
    /\ (called.op = "series_percentile"
          /\ Cardinality(ValidSamples(called.args.s)) < 20) => returned = 50
    /\ (called.op = "series_zscore"
          /\ Cardinality(ValidSamples(called.args.s)) < 20) => returned = 0
    /\ (called.op = "series_zscore"
          /\ Cardinality(ValidSamples(called.args.s)) >= 20
          /\ \A i, j \in ValidSamples(called.args.s) :
                 called.args.s[i] = called.args.s[j]) => returned = 0

\* C12 witness: 19 valid samples among 44 entries give the neutral percentile
C12_Witness ==
    /\ called.op = "series_percentile"
    /\ Len(called.args.s) = 44
    /\ Cardinality(ValidSamples(called.args.s)) = 19
    /\ called.args.s[44] = 19
    /\ called.args.value = 7
    /\ returned = 50

\* the three regime scores of the macro dict the last detect call scored
RegimeScores ==
    [RISK_ON |-> score_risk_on(macro_in'), RISK_OFF |-> score_risk_off(macro_in'),
     STRESS |-> score_stress(macro_in')]

\* a scored detect call outputs UNCERTAIN or TRANSITION by the regime held
\* before when no score reaches 60, else a label of highest score
ThresholdStep ==
    resolved' # resolved =>
        LET highest == CHOOSE v \in {RegimeScores[k] : k \in DOMAIN RegimeScores} :
                           \A k \in DOMAIN RegimeScores : RegimeScores[k] <= v
            output == current_state'.regime
        IN  /\ output = resolved'[Len(resolved')]
            /\ highest < 60 =>
                  /\ output = "UNCERTAIN" <=> current_state.regime = "UNCERTAIN"
                  /\ output = "TRANSITION" <=> current_state.regime # "UNCERTAIN"
            /\ highest >= 60 =>
                  /\ output \in DOMAIN RegimeScores
                  /\ RegimeScores[output] = highest

\* C13: when the highest of the three regime scores is below 60, detect
\* outputs UNCERTAIN exactly when the regime held before the call is UNCERTAIN
\* and TRANSITION otherwise; when it is 60 or more, the output is the label
\* with the highest score.
C13_BelowSixtyIsNoRegime == [][ThresholdStep]_vars

\* C13 witness: a score of exactly 60 made RISK_OFF the regime, and a later
\* call with no score of 60 turned it into TRANSITION
C13_Witness ==
    /\ Len(resolved) = 2
    /\ resolved[1] = "RISK_OFF"
    /\ resolved[2] = "TRANSITION"
    /\ current_state.regime = "TRANSITION"
    /\ current_state.previous = "RISK_OFF"
    /\ current_state.confidence = 50
    /\ macro_in = [VIX |-> 20, yield_curve |-> 0]

\* UNCERTAIN is never entered, and is left by the first call that scores 60
LeavesUncertainForGood ==
    /\ current_state.regime # "UNCERTAIN" => current_state'.regime # "UNCERTAIN"
    /\ (current_state.regime = "UNCERTAIN" /\ resolved' # resolved)
          => (current_state'.regime = "UNCERTAIN" <=> BestScore(macro_in') < 60)

\* C14: once the regime is a label other than UNCERTAIN it never becomes
\* UNCERTAIN again; UNCERTAIN holds only from the start and while no detect
\* call has scored 60 or more.
C14_UncertainOnlyAtStart ==
    /\ [][LeavesUncertainForGood]_vars
    /\ [](current_state.regime = "UNCERTAIN"
            => \A i \in DOMAIN resolved : resolved[i] = "UNCERTAIN")

\* C14 witness: UNCERTAIN was kept by a call below 60, left on a call that
\* scored, and not come back to by a later call below 60
C14_Witness ==
    /\ Len(resolved) = 3
    /\ resolved[1] = "UNCERTAIN"
    /\ resolved[2] = "RISK_ON"
    /\ resolved[3] = "TRANSITION"
    /\ current_state.regime = "TRANSITION"

\* the six indicators of _build_stats with the keys of their two statistics
Indicators ==
    {[name |-> "YIELD_CURVE_10Y2Y", pct |-> "yield_curve_percentile_2y",
      z |-> "yield_curve_zscore_2y"],
     [name |-> "HY_SPREAD", pct |-> "credit_spread_percentile_2y",
      z |-> "credit_spread_zscore_2y"],
     [name |-> "DOLLAR_INDEX", pct |-> "dollar_index_percentile_2y",
      z |-> "dollar_index_zscore_2y"],
     [name |-> "FINANCIAL_STRESS_INDEX", pct |-> "financial_stress_percentile_2y",
      z |-> "financial_stress_zscore_2y"],
     [name |-> "NFCI", pct |-> "nfci_percentile_2y", z |-> "nfci_zscore_2y"],
     [name |-> "VIX", pct |-> "vix_percentile_2y", z |-> "vix_zscore_2y"]}

\* the values of an indicator's history as the snapshot shows it (the credit
\* spread in basis points)
IndicatorHistory(name) ==
    LET rows == Get(snapshot.timeseries, name, <<>>)
        values == [i \in DOMAIN rows |-> rows[i].value]
    IN  IF name = "HY_SPREAD" /\ values # <<>> THEN HistBps(values) ELSE values

IndicatorLatest(name) ==
    IF name = "HY_SPREAD" THEN StatsBps(snapshot.raw_latest[name].value)
    ELSE snapshot.raw_latest[name].value

\* the two statistics of an available indicator are in derived, neutral below
\* 20 points and computed from 20 points on
HasStats(ind) ==
    /\ ind.pct \in DOMAIN snapshot.derived
    /\ ind.z \in DOMAIN snapshot.derived
    /\ IF Len(IndicatorHistory(ind.name)) < MinSamples
       THEN /\ snapshot.derived[ind.pct] = 50
            /\ snapshot.derived[ind.z] = 0
       ELSE /\ snapshot.derived[ind.pct] * Len(IndicatorHistory(ind.name))
                 = 100 * Cardinality({i \in DOMAIN IndicatorHistory(ind.name) :
                       IndicatorHistory(ind.name)[i] <= IndicatorLatest(ind.name)})
            /\ snapshot.derived[ind.z]
                 = series_zscore(IndicatorHistory(ind.name), IndicatorLatest(ind.name))

\* C15: for each of the six indicators (yield curve, credit spread, dollar
\* index, financial stress index, NFCI, VIX) whose latest value is available,
\* the derived map of a returned snapshot holds its 2-year percentile and
\* z-score: 50 and 0 when the history has fewer than 20 points, the values
\* computed from the history when it has 20 or more.
C15_IndicatorStats ==
    snapshot_status = "returned" =>
        \A ind \in Indicators :
            ind.name \in DOMAIN snapshot.raw_latest => HasStats(ind)

\* the threshold the frequency alone gives
FrequencyThreshold(frequency_short) ==
    CASE frequency_short = "D" -> 7
      [] frequency_short = "W" -> 21
      [] frequency_short = "M" -> 60
      [] frequency_short = "Q" -> 150
      [] frequency_short = "A" -> 450
      [] OTHER -> 60

\* a series of series_meta carries the threshold of its frequency and is in
\* quality.stale exactly when it is older than that
StalenessByFrequency(name) ==
    LET meta == snapshot.series_meta[name]
        threshold == FrequencyThreshold(Get(meta, "frequency_short", "None"))
    IN  /\ meta.staleness_threshold_days = threshold
        /\ name \in DOMAIN snapshot.quality.stale
             <=> ("staleness_days" \in DOMAIN meta /\ meta.staleness_days > threshold)

\* C16: for every series recorded in series_meta of a returned snapshot,
\* staleness_threshold_days follows from frequency_short alone (7 for D, 21
\* for W, 60 for M, 150 for Q, 450 for A, 60 for anything else), and the
\* series is listed in quality.stale exactly when its staleness_days is
\* strictly greater than that threshold.
C16_ThresholdFromFrequency ==
    snapshot_status = "returned" =>
        \A name \in DOMAIN snapshot.series_meta : StalenessByFrequency(name)

\* the keys of derived that hold None: only an absolute change can
UndefinedKeys(derived) ==
    {k \in DOMAIN derived :
        /\ \E name \in DOMAIN ChangeKey :
              k \in {ChangeKey[name].change_1w, ChangeKey[name].change_1m,
                     ChangeKey[name].change_1y}
        /\ derived[k] = None}

\* the value flat is to hold under a key: from features, else from derived,
\* else from raw_latest
FlatSource(snap, k) ==
    IF k \in DOMAIN snap.features THEN snap.features[k]
    ELSE IF k \in DOMAIN snap.derived \ UndefinedKeys(snap.derived)
    THEN snap.derived[k]
    ELSE snap.raw_latest[k].value

FlatFollowsSources(snap) ==
    /\ \A k \in DOMAIN snap.raw_latest \cup DOMAIN snap.features
                \cup (DOMAIN snap.derived \ UndefinedKeys(snap.derived)) :
          k \in DOMAIN snap.flat /\ snap.flat[k] = FlatSource(snap, k)
    /\ {"macro_risk_on", "macro_stress", "macro_usd_strength"}
          \subseteq DOMAIN snap.features
    /\ UndefinedKeys(snap.derived) \cap DOMAIN snap.flat = {}

\* C17: in a returned snapshot flat holds every raw_latest value, every
\* scalar entry of derived and the three macro features, each key with the
\* value from features, else from derived, else from raw_latest; an entry of
\* derived that is None is not in flat.
C17_FlatPrecedence ==
    snapshot_status = "returned" => FlatFollowsSources(snapshot)

\* a snapshot with quoted series, a computed change and a change that is None
C17_Witness ==
    /\ snapshot_status = "returned"
    /\ {"VIX", "GOLD", "TREASURY_10Y", "YIELD_CURVE_10Y2Y", "HY_SPREAD"}
          \subseteq DOMAIN snapshot.raw_latest
    /\ "YIELD_CURVE_10Y2Y_change_1w" \in DOMAIN snapshot.flat
    /\ "YIELD_CURVE_10Y2Y_change_1m" \in UndefinedKeys(snapshot.derived)
    /\ "credit_spread" \in DOMAIN snapshot.derived
    /\ snapshot.flat["macro_risk_on"] # 50

\* the percentile term of an indicator of the snapshot, inverted or not:
\* nothing when the series is not available, the neutral 50 for a history
\* of fewer than 20 points
PercentileTerm(name, inverted) ==
    IF name \notin DOMAIN snapshot.raw_latest THEN <<>>
    ELSE IF inverted
    THEN <<100 - series_percentile(IndicatorHistory(name), IndicatorLatest(name))>>
    ELSE <<series_percentile(IndicatorHistory(name), IndicatorLatest(name))>>

RiskOnTerms ==
    PercentileTerm("VIX", TRUE) \o PercentileTerm("HY_SPREAD", TRUE)
    \o PercentileTerm("YIELD_CURVE_10Y2Y", FALSE)
    \o PercentileTerm("FINANCIAL_STRESS_INDEX", TRUE) \o PercentileTerm("NFCI", TRUE)

StressTerms ==
    PercentileTerm("VIX", FALSE) \o PercentileTerm("HY_SPREAD", FALSE)
    \o PercentileTerm("YIELD_CURVE_10Y2Y", TRUE)
    \o PercentileTerm("FINANCIAL_STRESS_INDEX", FALSE) \o PercentileTerm("NFCI", FALSE)

\* value is the mean of the terms, or 50 without terms
IsMeanOf(value, terms) ==
    /\ value \in 0..100
    /\ IF terms = <<>> THEN value = 50
       ELSE value * Len(terms) = SumOver(terms, DOMAIN terms)

\* C18: in a returned snapshot macro_risk_on and macro_stress are each the
\* mean of those of their five percentile terms whose series is available
\* (an unavailable series is skipped, not counted as 50), 50 when none is,
\* and within [0, 100]; macro_usd_strength is the dollar-index percentile, or
\* 50 when that series is unavailable.
C18_FeaturesAreMeans ==
    snapshot_status = "returned" =>
        /\ IsMeanOf(snapshot.features.macro_risk_on, RiskOnTerms)
        /\ IsMeanOf(snapshot.features.macro_stress, StressTerms)
        /\ IsMeanOf(snapshot.features.macro_usd_strength,
                    PercentileTerm("DOLLAR_INDEX", FALSE))

\* the four indicators that vote on the direction, with their thresholds
Voters ==
    {[group |-> "trend", key |-> "trend_direction", lo |-> 40, hi |-> 60],
     [group |-> "trend", key |-> "ma_alignment", lo |-> 25, hi |-> 75],
     [group |-> "momentum", key |-> "rsi_14", lo |-> 40, hi |-> 60],
     [group |-> "fractal", key |-> "structure_bias", lo |-> 40, hi |-> 60]}

VotesUp(features) ==
    Cardinality({v \in Voters : /\ v.key \in DOMAIN features[v.group]
                                /\ features[v.group][v.key] > v.hi})

VotesDown(features) ==
    Cardinality({v \in Voters : /\ v.key \in DOMAIN features[v.group]
                                /\ features[v.group][v.key] < v.lo})

\* C19: the direction is the arithmetic mean of the votes cast by
\* trend_direction (+1 above 60, -1 below 40), ma_alignment (+1 above 75, -1
\* below 25), rsi_14 and structure_bias (+1 above 60, -1 below 40); an
\* indicator between its thresholds or absent casts no vote; the direction is
\* 0 without votes and always within [-1, +1].
C19_DirectionIsMeanOfVotes ==
    called.op = "calculate_direction" =>
        LET up == VotesUp(called.args.features)
            down == VotesDown(called.args.features)
        IN  /\ returned \in (0 - DirectionScale)..DirectionScale
            /\ up + down = 0 => returned = 0
            /\ returned * (up + down) = DirectionScale * (up - down)

\* two votes up, one down, one indicator absent: the mean is one third
C19_Witness ==
    /\ called.op = "calculate_direction"
    /\ VotesUp(called.args.features) = 2
    /\ VotesDown(called.args.features) = 1
    /\ "structure_bias" \notin DOMAIN called.args.features.fractal
    /\ returned * 3 = DirectionScale

\* base weight times the regime's multiplier, 1 (ten tenths) when the regime
\* or the component has none
WeightProducts(regime) ==
    [k \in ComponentNames |->
        SCORE_WEIGHTS[k]
        * (IF regime \in DOMAIN REGIME_WEIGHT_ADJUSTMENTS
              /\ k \in DOMAIN REGIME_WEIGHT_ADJUSTMENTS[regime]
           THEN REGIME_WEIGHT_ADJUSTMENTS[regime][k]
           ELSE 10)]

\* C20: for every regime label, an unknown one included, get_adjusted_weights
\* returns weights for all ten components, each strictly positive and equal
\* to base weight times multiplier over the sum of those products (so they
\* sum to 1), and the base table is the same after the call.
C20_AdjustedWeights ==
    called.op = "get_adjusted_weights" =>
        LET w == returned.weights
            products == WeightProducts(called.args.regime)
        IN  /\ DOMAIN w = ComponentNames
            /\ Cardinality(DOMAIN w) = 10
            /\ WeightSum(w) > 0
            /\ \A k \in ComponentNames :
                  /\ w[k] > 0
                  /\ w[k] * WeightSum(products) = products[k] * WeightSum(w)
            /\ returned.SCORE_WEIGHTS = SCORE_WEIGHTS
            /\ WeightSum(returned.SCORE_WEIGHTS) = 100

\* an unknown label gets the base weights; STRESS gets 0.195 / 1.155 for
\* macro_alignment
C20_Witness ==
    /\ called.op = "get_adjusted_weights"
    /\ \/ /\ called.args.regime = "UNKNOWN"
          /\ returned.weights["macro_alignment"] * 100
                = 15 * WeightSum(returned.weights)
       \/ /\ called.args.regime = "STRESS"
          /\ returned.weights["macro_alignment"] * 1155
                = 195 * WeightSum(returned.weights)

\* one fetch call: what the cache held is kept as it was, nothing empty is
\* stored, a stored key is answered from the cache without asking the
\* provider, any other key asks the provider and stores its answer only when
\* it is not empty
FetchStep ==
    LET key == called'.args.key
        outcome == called'.args.outcome
    IN  /\ called'.op = "fetch"
        /\ \A k \in DOMAIN cache : k \in DOMAIN cache' /\ cache'[k] = cache[k]
        /\ \A k \in DOMAIN cache' : ~FrameEmpty(cache'[k])
        /\ key \in DOMAIN cache =>
              /\ returned' = cache[key]
              /\ ~called'.asked
              /\ cache' = cache
        /\ (key \notin DOMAIN cache /\ fred_available) =>
              /\ called'.asked
              /\ IF outcome.error \/ FrameEmpty(outcome)
                 THEN cache' = cache /\ FrameEmpty(returned')
                 ELSE /\ returned' = outcome
                      /\ DOMAIN cache' = DOMAIN cache \cup {key}
                      /\ cache'[key] = outcome

GroupKeys(g) == UNION {FeatureGroups[g].steps[i] : i \in 1..Len(FeatureGroups[g].steps)}

\* C22: each of the trend, momentum, volatility, Hurst and SMC calculators
\* returns a map with the group's complete key set whatever statement of the
\* computation fails, and when one fails the map is exactly the neutral
\* default map, not the partly filled one.
C22_GroupsDegradeToDefaults ==
    called.op = "calculate" =>
        LET g == called.args.group
        IN  /\ DOMAIN returned = GroupKeys(g)
            /\ DOMAIN returned = DOMAIN FeatureGroups[g].defaults
            /\ called.args.fails_at > 0 => returned = FeatureGroups[g].defaults

\* a statement failed after others had assigned non-default values
C22_Witness ==
    /\ called.op = "calculate"
    /\ called.args.fails_at > 0
    /\ called.args.value = 73
    /\ AssignedBefore(FeatureGroups[called.args.group].steps,
                      called.args.fails_at) # {}
    /\ returned = FeatureGroups[called.args.group].defaults

\* the input of the last call was scored
Scored(macro) == ~IsEmpty(macro) /\ ~ScoringRaises(macro)

C24_ConfidenceIsBestScore ==
    Scored(macro_in) => current_state.confidence = BestScore(macro_in)

\* detect has nothing to score: no data, or a VIX or yield curve that is not
\* a number
DetectFails(macro) ==
    IsEmpty(macro) \/ ~IsNumber(MacroVix(macro)) \/ ~IsNumber(MacroYieldCurve(macro))

\* determine has nothing to score: no data, or a growth, inflation or spread
\* value that is not a number
DetermineFails(macro) ==
    \/ IsEmpty(macro)
    \/ \E k \in {"gdp_growth", "core_inflation", "credit_spread"} \cap DOMAIN macro :
          ~IsNumber(macro[k])

NoDataStep ==
    /\ (called'.op = "detect" /\ DetectFails(called'.args)) =>
          /\ current_state' = current_state
          /\ returned' = current_state
    /\ (called'.op = "determine" /\ DetermineFails(called'.args)) =>
          /\ current' = current
          /\ sequence' = sequence
          /\ returned' = current

\* C25: a detect or determine call whose macro data is empty or whose scoring
\* raises returns the current state and changes nothing: regime, confidence,
\* previous and duration_days, and scenario, probability, sequence and
\* next_prediction are as before the call.
C25_NoDataChangesNothing == [][NoDataStep]_vars

\* both classifiers had left their initial state when a determine call with a
\* spread that is not a number returned the state as it was
C25_Witness ==
    /\ called.op = "determine"
    /\ ~IsEmpty(called.args)
    /\ DetermineFails(called.args)
    /\ returned = current
    /\ current.scenario # "UNCERTAIN"
    /\ Len(current.sequence) > 1
    /\ current_state.regime # "UNCERTAIN"

\* C26: in every returned snapshot macro_risk_on + macro_stress = 100,
\* whichever of the five series behind them are available.
C26_RiskOnAndStressSumTo100 ==
    snapshot_status = "returned" =>
        snapshot.features.macro_risk_on + snapshot.features.macro_stress = 100

\* some of the five series missing, the others not at the neutral 50
C26_Witness ==
    /\ snapshot_status = "returned"
    /\ "HY_SPREAD" \notin DOMAIN snapshot.raw_latest
    /\ "YIELD_CURVE_10Y2Y" \in DOMAIN snapshot.raw_latest
    /\ snapshot.features.macro_risk_on \notin {0, 50, 100}
    /\ snapshot.features.macro_risk_on + snapshot.features.macro_stress = 100

\* the change keys of a series other than the 1-year change
ShortChangeKeys(name) ==
    {ChangeKey[name].change_1w, ChangeKey[name].change_1m,
     ChangeKey[name].pct_change_1m}

\* one snapshot, for one series: stored metadata is kept; a lookup that fails
\* stores empty metadata; with empty metadata stored the series has no
\* frequency, a threshold of 60 days and no change but the 1-year one (which
\* a history of five or more rows gets),
\* whatever the provider would answer now; a history that is not stored is
\* asked for and stored when the provider answers
MetadataStepOf(name, upstream) ==
    LET sid == FRED_SERIES[name]
        key == <<sid, "2y">>
    IN  /\ sid \in DOMAIN series_info_cache =>
              /\ sid \in DOMAIN series_info_cache'
              /\ series_info_cache'[sid] = series_info_cache[sid]
        /\ (fred_available /\ sid \notin DOMAIN series_info_cache
            /\ ~upstream.info_ok) =>
              /\ sid \in DOMAIN series_info_cache'
              /\ series_info_cache'[sid] = EmptyDict
        /\ (fred_available /\ sid \in DOMAIN series_info_cache
            /\ series_info_cache[sid] = EmptyDict
            /\ snapshot_status' = "returned") =>
              /\ name \in DOMAIN snapshot'.series_meta
              /\ snapshot'.series_meta[name].frequency_short = "None"
              /\ snapshot'.series_meta[name].staleness_threshold_days = 60
              /\ ShortChangeKeys(name) \cap DOMAIN snapshot'.derived = {}
              /\ (name \in DOMAIN snapshot'.timeseries
                  /\ Len(snapshot'.timeseries[name]) >= MinChangeRows) =>
                    ChangeKey[name].change_1y \in DOMAIN snapshot'.derived
        /\ (fred_available /\ key \notin DOMAIN cache
            /\ ~upstream.fred[name].error /\ ~FrameEmpty(upstream.fred[name])) =>
              /\ key \in DOMAIN cache'
              /\ cache'[key] = upstream.fred[name]
              /\ snapshot_status' = "returned" => name \in DOMAIN snapshot'.timeseries

MetadataStep ==
    /\ called'.op = "get_macro_snapshot"
    /\ \A i \in 1..Len(SeriesNames) : MetadataStepOf(SeriesNames[i], called'.args)

\* C27: a metadata lookup that failed once stores empty metadata, which is
\* never replaced: every later snapshot gives the series no frequency, the
\* 60-day staleness threshold and only the 1-year change; a data fetch that
\* failed is made again in the next snapshot.
C27_FailedMetadataIsKept == [][MetadataStep]_vars

\* the provider would answer the metadata lookup now, and the spread, which
\* has a value, still has no frequency, the threshold of 60 days and a 1-year
\* change only
C27_Witness ==
    /\ called.op = "get_macro_snapshot"
    /\ called.args.info_ok
    /\ fred_available
    /\ snapshot_status = "returned"
    /\ series_info_cache[FRED_SERIES["HY_SPREAD"]] = EmptyDict
    /\ "HY_SPREAD" \in DOMAIN snapshot.raw_latest
    /\ snapshot.series_meta["HY_SPREAD"].frequency_short = "None"
    /\ snapshot.series_meta["HY_SPREAD"].staleness_threshold_days = 60
    /\ ChangeKey["HY_SPREAD"].change_1y \in DOMAIN snapshot.derived
    /\ ChangeKey["HY_SPREAD"].change_1w \notin DOMAIN snapshot.derived

\* C28: in continuous mode a cycle that ends with an exception does not stop
\* the loop; the first cycle runs at once and further cycles are started at
\* the interval.
C28_FailedCycleKeepsLoop ==
    called.op = "run_continuous" =>
        /\ called.cycles >= 1
        /\ called.waited \in 0..IntervalMinutes
        /\ cycle_result = "raised" => called.running

\* a signal agrees with the direction of its score: LONG with the stop below
\* the entry and both targets above it, SHORT with the stop above and both
\* targets below
SignalFollows(signal, direction) ==
    /\ direction # 0
    /\ direction > 0 =>
          /\ signal.direction = "LONG"
          /\ signal.stop_loss < signal.entry_price
          /\ signal.take_profit_1 > signal.entry_price
          /\ signal.take_profit_2 > signal.entry_price
    /\ direction < 0 =>
          /\ signal.direction = "SHORT"
          /\ signal.stop_loss > signal.entry_price
          /\ signal.take_profit_1 < signal.entry_price
          /\ signal.take_profit_2 < signal.entry_price

\* C29: generate emits a signal for an asset only when the direction of its
\* score is not zero, LONG above zero and SHORT below; a direction of exactly
\* zero yields no signal.
C29_NoSignalWithoutDirection ==
    called.op = "generate" =>
        \A symbol \in DOMAIN returned :
            SignalFollows(returned[symbol], called.args.scores[symbol].direction)

\* every change in the window is a gain or zero, and one of them is a gain
OnlyRises(close, period) ==
    /\ Len(close) > period
    /\ \A i \in (Len(close) - period + 1)..Len(close) : close[i] >= close[i - 1]
    /\ \E i \in (Len(close) - period + 1)..Len(close) : close[i] > close[i - 1]

\* C30: when every price change in the RSI window is a gain or zero and the
\* average gain is positive, the RSI is at least 50 and rsi_14 casts no
\* bearish vote, whatever the size of the price steps.
C30_RisingSeriesNotBearish ==
    (called.op = "calculate_rsi" /\ OnlyRises(called.args.close, RsiPeriod)) =>
        /\ returned.rsi >= 50
        /\ returned.vote # <<0 - 1>>

====
